---- MODULE Spec2Model ----
(***************************************************************************)
(* Model of the leetcode-tracker backend question store                    *)
(* (backend/src/services/questionService.ts), its review scheduler         *)
(* (backend/src/utils/spacedRepetition.ts) and the CSV write-through       *)
(* (backend/src/services/csvService.ts).                                   *)
(*                                                                         *)
(* Representation choices:                                                 *)
(*  - an instant is an integer number of clock ticks; TicksPerDay ticks    *)
(*    make one local calendar day, so an instant has a calendar day        *)
(*    (t \div TicksPerDay) and a time of day (t % TicksPerDay).            *)
(*    Date.toISOString() is lossless on instants, so an ISO string is      *)
(*    represented by the instant it denotes.                               *)
(*  - an optional value (a field that may be undefined) is a sequence of   *)
(*    length 0 (absent) or 1 (present).                                    *)
(*  - request bodies are the shapes the zod schemas let through            *)
(*    (CreateQuestionSchema, UpdateQuestionSchema, ReviewRequestSchema).   *)
(*  - a handler is one step: its in-memory writes happen without an await  *)
(*    in between, and the new Date() readings it takes fall on one tick.   *)
(*  - Spec explores every run of at most MaxCalls service calls; the       *)
(*    clock and the save timers move freely between the calls.             *)
(*  - SpecBody explores runs of at most MaxBodyCalls calls within one      *)
(*    clock tick, keeps the request body of each call and adds the read    *)
(*    getQuestionById.                                                     *)
(*  - SpecDue applies the due classification of the backend and of the     *)
(*    frontend (utils/spacedRepetition.ts) to a store as loaded from a     *)
(*    file.                                                                *)
(***************************************************************************)
EXTENDS Integers, Sequences, FiniteSets, TLC

VARIABLES
    questions,            \* QuestionService.questions : Question[]
    nextId,               \* QuestionService.nextId
    isUpdatingFromFile,   \* QuestionService.isUpdatingFromFile
    timers,               \* number of pending setTimeout callbacks of saveQuestions
    file,                 \* rows of the CSV file written by csvService.writeQuestions
    now,                  \* the wall clock read by new Date()
    lastCall,             \* the most recent service call, its arguments and its outcome
    calls,                \* number of service calls made so far
    lastBody,             \* the request body of the most recent call (kept by SpecBody)
    returned,             \* what the most recent call returned, if it was a read
    calcArgs,             \* arguments of a stand-alone calculateNextReview call
    calcResult,           \* its result (optional)
    tasks,                \* writes and reloads that are waiting at an await
    watchEvents           \* changes of the file the watcher has yet to report

vars == <<questions, nextId, isUpdatingFromFile, timers, file, now, lastCall,
          calls, lastBody, returned, calcArgs, calcResult, tasks, watchEvents>>

----------------------------------------------------------------------------
(* Bounds of the model *)

MaxCalls == 4         \* the service is called at most this many times
MaxBodyCalls == 3     \* the same, in the runs that keep the request bodies
MaxQuestions == 2     \* createQuestion is not called on a store of this size
MaxNow == 1           \* the clock stops advancing at this tick
MaxTimers == 1        \* at most this many saveQuestions timers are pending
MaxCount == 8         \* largest reviewCount given to a stand-alone calculateNextReview
MaxDueTick == 11      \* instants of the due classification run from 0 to this
MaxCalcNow == 5        \* latest clock reading of a stand-alone calculateNextReview
TicksPerDay == 2      \* clock ticks per calendar day

----------------------------------------------------------------------------
(* Value domains *)

None == <<>>
Some(x) == <<x>>
IsSet(o) == Len(o) > 0

Difficulties == {"easy", "medium", "hard"}
Names == {"Two Sum"}
Categories == {"Arrays"}
Urls == {"https://leetcode.com/problems/two-sum/", "https://leetcode.com/problems/3sum/"}
NoteTexts == {"", "revisit"}

Min(a, b) == IF a < b THEN a ELSE b

\* local calendar day of an instant; local midnight of a calendar day
DayOf(t) == t \div TicksPerDay
LocalMidnight(day) == day * TicksPerDay

----------------------------------------------------------------------------
(* spacedRepetition.ts *)

intervals == <<1, 3, 7, 14, 30, 90>>

\* calculateNextReview without the reset for "hard"
calculateNextReview_NoHardReset(reviewCount, difficulty, t) ==
    LET intervalIndex == Min(reviewCount, Len(intervals) - 1)
        daysToAdd == intervals[intervalIndex + 1]
    IN  LocalMidnight(DayOf(t) + daysToAdd)

\* calculateNextReview(reviewCount, difficulty), with t the value of new Date()
calculateNextReview(reviewCount, difficulty, t) ==
    LET clamped == Min(reviewCount, Len(intervals) - 1)
        intervalIndex == IF difficulty = "hard" THEN 0 ELSE clamped
        daysToAdd == intervals[intervalIndex + 1]
    IN  LocalMidnight(DayOf(t) + daysToAdd)

----------------------------------------------------------------------------
(* csvService.ts *)

\* x || '' for an optional string
OrEmpty(o) == IF IsSet(o) THEN o[1] ELSE ""

\* A date string is the instant it denotes (a tick, 0 or later) or one of three
\* strings that denote none
ZeroString == -1      \* "0"
NotADate == -2        \* a string new Date() cannot parse
EmptyString == -3     \* ""

\* !s is false: s is neither undefined nor the empty string
truthy(s) == IsSet(s) /\ s[1] # EmptyString

\* value || '' for an optional value
orEmptyString(o) == IF truthy(o) THEN o[1] ELSE EmptyString

\* field || undefined for a field of a row
orUndefined(field) == IF field # EmptyString THEN Some(field) ELSE None

\* Array.prototype.join(','): the elements with a comma between neighbours;
\* the empty string (no letters) for no elements
\* The text of a number field is the number it spells (0 or more), Letters
\* for text that spells no number, or EmptyString; parseInt gives NaN for the
\* last two
Letters == -2
NaN == -1
parseInt(text) == IF text >= 0 THEN text ELSE NaN

\* n || 0 for a number
orZero(n) == IF n = NaN \/ n = 0 THEN 0 ELSE n

\* n + 1 and n++ for a number
increment(n) == IF n = NaN THEN NaN ELSE n + 1

RECURSIVE join(_)
join(list) ==
    IF list = <<>> THEN <<>>
    ELSE IF Len(list) = 1 THEN list
    ELSE <<Head(list), ",">> \o join(Tail(list))

\* String.prototype.split(',').filter(Boolean) on a string made by join
split(text) ==
    LET Element(x) == x # ","
    IN  SelectSeq(text, Element)

questionToCSVRow(q) ==
    [ id |-> q.id,
      name |-> q.name,
      category |-> q.category,
      leetcode_url |-> q.leetcodeUrl,
      status |-> q.status,
      first_completed |-> orEmptyString(q.firstCompleted),
      last_reviewed |-> orEmptyString(q.lastReviewed),
      next_review |-> orEmptyString(q.nextReview),
      review_count |-> q.reviewCount,
      difficulty_history |-> join(q.difficultyHistory),
      notes |-> q.notes ]

\* the records handed to writer.writeRecords
writeQuestions(qs) == [i \in 1..Len(qs) |-> questionToCSVRow(qs[i])]

----------------------------------------------------------------------------
(* questionService.ts: helpers on the in-memory array *)

\* this.questions.findIndex(q => q.id === id), 0 when there is none
findIndex(qs, id) ==
    IF \E i \in 1..Len(qs) : qs[i].id = id
    THEN CHOOSE i \in 1..Len(qs) :
            qs[i].id = id /\ \A j \in 1..(i - 1) : qs[j].id # id
    ELSE 0

\* a lookup that takes the id for the position in the array
find_ByPosition(qs, id) ==
    IF id \in 1..Len(qs) THEN Some(qs[id]) ELSE None

\* this.questions.find(q => q.id === id) || null
find(qs, id) ==
    IF \E i \in 1..Len(qs) : qs[i].id = id
    THEN Some(qs[CHOOSE i \in 1..Len(qs) :
                    qs[i].id = id /\ \A j \in 1..(i - 1) : qs[j].id # id])
    ELSE None

\* the url search with the id test turned round (=== for !==)
urlTaken_SameId(qs, url, exceptId) ==
    \E i \in 1..Len(qs) : qs[i].leetcodeUrl = url /\ qs[i].id = exceptId

\* this.questions.find(q => q.leetcodeUrl === url [&& q.id !== exceptId])
urlTaken(qs, url, exceptId) ==
    \E i \in 1..Len(qs) : qs[i].leetcodeUrl = url /\ qs[i].id # exceptId

\* a splice that removes the last element whatever the index (pop)
splice_Pop(qs, index) ==
    [i \in 1..(Len(qs) - 1) |-> qs[i]]

\* this.questions.splice(index, 1)
splice(qs, index) ==
    [i \in 1..(Len(qs) - 1) |-> IF i < index THEN qs[i] ELSE qs[i + 1]]

----------------------------------------------------------------------------
(* questionService.ts: the record each operation builds *)

\* a question whose id is the size of the store plus one instead of nextId
newQuestion_LengthId(id, data) ==
    [ id |-> Len(questions) + 1,
      name |-> data.name[1],
      category |-> data.category[1],
      leetcodeUrl |-> data.leetcodeUrl[1],
      leetcodeDifficulty |-> None,
      status |-> "not_started",
      firstCompleted |-> None,
      lastReviewed |-> None,
      nextReview |-> None,
      reviewCount |-> 0,
      difficultyHistory |-> <<>>,
      notes |-> OrEmpty(data.notes) ]

\* a question whose id is the highest id in the store plus one, 1 for an empty
\* store, instead of nextId
newQuestion_MaxPlusOne(id, data) ==
    [ id |-> IF questions = <<>> THEN 1
             ELSE 1 + CHOOSE m \in {questions[i].id : i \in 1..Len(questions)} :
                          \A i \in 1..Len(questions) : questions[i].id <= m,
      name |-> data.name[1],
      category |-> data.category[1],
      leetcodeUrl |-> data.leetcodeUrl[1],
      leetcodeDifficulty |-> None,
      status |-> "not_started",
      firstCompleted |-> None,
      lastReviewed |-> None,
      nextReview |-> None,
      reviewCount |-> 0,
      difficultyHistory |-> <<>>,
      notes |-> OrEmpty(data.notes) ]

\* the Question literal of createQuestion
newQuestion(id, data) ==
    [ id |-> id,
      name |-> data.name[1],
      category |-> data.category[1],
      leetcodeUrl |-> data.leetcodeUrl[1],
      leetcodeDifficulty |-> None,
      status |-> "not_started",
      firstCompleted |-> None,
      lastReviewed |-> None,
      nextReview |-> None,
      reviewCount |-> 0,
      difficultyHistory |-> <<>>,
      notes |-> OrEmpty(data.notes) ]

\* a merge that also drops the date of first completion
mergeUpdate_ClearsFirstCompleted(q, data) ==
    [q EXCEPT !.name = IF IsSet(data.name) THEN data.name[1] ELSE @,
              !.category = IF IsSet(data.category) THEN data.category[1] ELSE @,
              !.leetcodeUrl = IF IsSet(data.leetcodeUrl) THEN data.leetcodeUrl[1] ELSE @,
              !.notes = IF IsSet(data.notes) THEN data.notes[1] ELSE @,
              !.firstCompleted = None]

\* a merge that treats empty notes as not provided (|| in place of the spread)
mergeUpdate_KeepsEmptyNotes(q, data) ==
    [q EXCEPT !.name = IF IsSet(data.name) THEN data.name[1] ELSE @,
              !.category = IF IsSet(data.category) THEN data.category[1] ELSE @,
              !.leetcodeUrl = IF IsSet(data.leetcodeUrl) THEN data.leetcodeUrl[1] ELSE @,
              !.notes = IF IsSet(data.notes) /\ data.notes[1] # "" THEN data.notes[1] ELSE @]

\* { ...this.questions[questionIndex], ...data } of updateQuestion
mergeUpdate(q, data) ==
    [q EXCEPT !.name = IF IsSet(data.name) THEN data.name[1] ELSE @,
              !.category = IF IsSet(data.category) THEN data.category[1] ELSE @,
              !.leetcodeUrl = IF IsSet(data.leetcodeUrl) THEN data.leetcodeUrl[1] ELSE @,
              !.notes = IF IsSet(data.notes) THEN data.notes[1] ELSE @]

\* reviewData.notes ?? question.notes: an empty string replaces too
notesOr_Nullish(reviewData, q) ==
    IF IsSet(reviewData.notes)
    THEN reviewData.notes[1]
    ELSE q.notes

\* reviewData.notes || question.notes
notesOr(reviewData, q) ==
    IF IsSet(reviewData.notes) /\ reviewData.notes[1] # ""
    THEN reviewData.notes[1]
    ELSE q.notes

\* completion that stamps firstCompleted every time
completedQuestion_RestampsFirst(q, reviewData, t) ==
    [q EXCEPT !.status = "under_review",
              !.firstCompleted = Some(t),
              !.lastReviewed = Some(t),
              !.nextReview = Some(calculateNextReview(0, reviewData.difficulty[1], t)),
              !.reviewCount = 1,
              !.difficultyHistory = <<reviewData.difficulty[1]>>,
              !.notes = notesOr(reviewData, q)]

\* completion that gives the status completed
completedQuestion_Completed(q, reviewData, t) ==
    [q EXCEPT !.status = "completed",
              !.firstCompleted = IF IsSet(@) THEN @ ELSE Some(t),
              !.lastReviewed = Some(t),
              !.nextReview = Some(calculateNextReview(0, reviewData.difficulty[1], t)),
              !.reviewCount = 1,
              !.difficultyHistory = <<reviewData.difficulty[1]>>,
              !.notes = notesOr(reviewData, q)]

\* the updatedQuestion literal of completeQuestion, t the value of new Date()
completedQuestion(q, reviewData, t) ==
    [q EXCEPT !.status = "under_review",
              !.firstCompleted = IF IsSet(@) THEN @ ELSE Some(t),
              !.lastReviewed = Some(t),
              !.nextReview = Some(calculateNextReview(0, reviewData.difficulty[1], t)),
              !.reviewCount = 1,
              !.difficultyHistory = <<reviewData.difficulty[1]>>,
              !.notes = notesOr(reviewData, q)]

\* review that forgets to count
reviewedQuestion_NoCount(q, reviewData, t) ==
    [q EXCEPT !.lastReviewed = Some(t),
              !.nextReview = Some(calculateNextReview(q.reviewCount,
                                                      reviewData.difficulty[1], t)),
              !.difficultyHistory = Append(@, reviewData.difficulty[1]),
              !.notes = notesOr(reviewData, q),
              !.status = IF reviewData.difficulty[1] = "hard"
                         THEN "needs_attention" ELSE "under_review"]

\* review that schedules from the count after the increment
reviewedQuestion_CountAfter(q, reviewData, t) ==
    [q EXCEPT !.lastReviewed = Some(t),
              !.nextReview = Some(calculateNextReview(q.reviewCount + 1,
                                                      reviewData.difficulty[1], t)),
              !.reviewCount = @ + 1,
              !.difficultyHistory = Append(@, reviewData.difficulty[1]),
              !.notes = notesOr(reviewData, q),
              !.status = IF reviewData.difficulty[1] = "hard"
                         THEN "needs_attention" ELSE "under_review"]

\* the in-place assignments of reviewQuestion, t the value of new Date()
reviewedQuestion(q, reviewData, t) ==
    [q EXCEPT !.lastReviewed = Some(t),
              !.nextReview = Some(calculateNextReview(q.reviewCount,
                                                      reviewData.difficulty[1], t)),
              !.reviewCount = @ + 1,
              !.difficultyHistory = Append(@, reviewData.difficulty[1]),
              !.notes = notesOr(reviewData, q),
              !.status = IF reviewData.difficulty[1] = "hard"
                         THEN "needs_attention" ELSE "under_review"]

\* reset that leaves the review date behind
resetQuestionRecord_KeepsNextReview(q) ==
    [q EXCEPT !.status = "not_started",
              !.firstCompleted = None,
              !.lastReviewed = None,
              !.reviewCount = 0,
              !.difficultyHistory = <<>>]

\* reset that wipes the notes as well
resetQuestionRecord_ClearsNotes(q) ==
    [q EXCEPT !.status = "not_started",
              !.firstCompleted = None,
              !.lastReviewed = None,
              !.nextReview = None,
              !.reviewCount = 0,
              !.difficultyHistory = <<>>,
              !.notes = ""]

\* reset that takes back only the latest review
resetQuestionRecord_UndoesLast(q) ==
    [q EXCEPT !.status = "not_started",
              !.firstCompleted = None,
              !.lastReviewed = None,
              !.nextReview = None,
              !.reviewCount = IF @ > 0 THEN @ - 1 ELSE 0,
              !.difficultyHistory = IF Len(@) > 0 THEN SubSeq(@, 1, Len(@) - 1) ELSE @]

\* the in-place assignments of resetQuestion
resetQuestionRecord(q) ==
    [q EXCEPT !.status = "not_started",
              !.firstCompleted = None,
              !.lastReviewed = None,
              !.nextReview = None,
              !.reviewCount = 0,
              !.difficultyHistory = <<>>]

----------------------------------------------------------------------------
(* Request bodies and the record of the last call *)

Opt(S) == {None} \cup {Some(x) : x \in S}

Body(name, category, url, notes, difficulty) ==
    [ name |-> name, category |-> category, leetcodeUrl |-> url,
      notes |-> notes, difficulty |-> difficulty ]

\* bodies accepted by CreateQuestionSchema
CreateBodies ==
    { Body(Some(n), Some(c), Some(u), nt, None) :
        n \in Names, c \in Categories, u \in Urls, nt \in Opt(NoteTexts) }

\* bodies accepted by UpdateQuestionSchema; a name or category, of which these
\* runs know one value each, would be merged over the same value, so the bodies
\* that provide them are left to UpdateBodiesWide
UpdateBodies ==
    { Body(None, None, u, nt, None) : u \in Opt(Urls), nt \in Opt(NoteTexts) }

\* bodies accepted by ReviewRequestSchema
ReviewBodies ==
    { Body(None, None, None, nt, Some(d)) : d \in Difficulties, nt \in Opt(NoteTexts) }

NoBody == Body(None, None, None, None, None)

\* what is remembered of a call: the operation, the id it was given (for
\* createQuestion the id it assigned, 0 if none), the difficulty of its review
\* body if it has one and the call succeeded, and how it ended
Call(op, id, body, outcome) ==
    [ op |-> op, id |-> id, difficulty |-> body.difficulty, outcome |-> outcome ]

\* ids a caller may name: every id assigned so far (still in the store or
\* deleted) and the first id not assigned yet
IdArgs == 1..nextId

----------------------------------------------------------------------------
(* questionService.ts: the operations *)

\* saveQuestions(): raise the flag, write every record, arm the 100 ms timer
saveQuestions(qs) ==
    /\ isUpdatingFromFile' = TRUE
    /\ file' = writeQuestions(qs)
    /\ timers' = timers + 1

\* a rejected call that writes the unchanged store to the file all the same
Rejected_Saves(op, id, body, outcome) ==
    /\ lastCall' = Call(op, id, NoBody, outcome)
    /\ saveQuestions(questions)
    /\ UNCHANGED <<questions, nextId>>

\* a call that throws or returns before touching anything
Rejected(op, id, body, outcome) ==
    /\ lastCall' = Call(op, id, NoBody, outcome)
    /\ UNCHANGED <<questions, nextId, isUpdatingFromFile, timers, file>>

\* createQuestion that takes the id from the counter before it looks for the url
createQuestion_BurnsId(data) ==
    /\ calls < MaxCalls
    /\ calls' = calls + 1
    /\ IF urlTaken(questions, data.leetcodeUrl[1], 0)
       THEN /\ lastCall' = Call("create", 0, NoBody, "DuplicateUrl")
            /\ nextId' = nextId + 1
            /\ UNCHANGED <<questions, isUpdatingFromFile, timers, file>>
       ELSE /\ Len(questions) < MaxQuestions
            /\ timers < MaxTimers
            /\ questions' = Append(questions, newQuestion(nextId, data))
            /\ nextId' = nextId + 1
            /\ saveQuestions(questions')
            /\ lastCall' = Call("create", nextId, data, "ok")
    /\ UNCHANGED <<now, calcArgs, calcResult, tasks, watchEvents>>

createQuestion(data) ==
    /\ calls < MaxCalls
    /\ calls' = calls + 1
    /\ IF urlTaken(questions, data.leetcodeUrl[1], 0)
       THEN Rejected("create", 0, data, "DuplicateUrl")
       ELSE /\ Len(questions) < MaxQuestions
            /\ timers < MaxTimers
            /\ questions' = Append(questions, newQuestion(nextId, data))
            /\ nextId' = increment(nextId)
            /\ saveQuestions(questions')
            /\ lastCall' = Call("create", nextId, data, "ok")
    /\ UNCHANGED <<now, calcArgs, calcResult, tasks, watchEvents>>

\* updateQuestion whose url search does not skip the question being updated
updateQuestion_NoOwnExemption(id, data) ==
    /\ calls < MaxCalls
    /\ calls' = calls + 1
    /\ LET questionIndex == findIndex(questions, id) IN
       IF questionIndex = 0
       THEN Rejected("update", id, data, "NotFound")
       ELSE IF IsSet(data.leetcodeUrl) /\ urlTaken(questions, data.leetcodeUrl[1], 0)
       THEN Rejected("update", id, data, "DuplicateUrl")
       ELSE /\ timers < MaxTimers
            /\ questions' = [questions EXCEPT
                                ![questionIndex] = mergeUpdate(@, data)]
            /\ saveQuestions(questions')
            /\ lastCall' = Call("update", id, data, "ok")
            /\ UNCHANGED nextId
    /\ UNCHANGED <<now, calcArgs, calcResult, tasks, watchEvents>>

updateQuestion(id, data) ==
    /\ calls < MaxCalls
    /\ calls' = calls + 1
    /\ LET questionIndex == findIndex(questions, id) IN
       IF questionIndex = 0
       THEN Rejected("update", id, data, "NotFound")
       ELSE IF IsSet(data.leetcodeUrl) /\ urlTaken(questions, data.leetcodeUrl[1], id)
       THEN Rejected("update", id, data, "DuplicateUrl")
       ELSE /\ timers < MaxTimers
            /\ questions' = [questions EXCEPT
                                ![questionIndex] = mergeUpdate(@, data)]
            /\ saveQuestions(questions')
            /\ lastCall' = Call("update", id, data, "ok")
            /\ UNCHANGED nextId
    /\ UNCHANGED <<now, calcArgs, calcResult, tasks, watchEvents>>

deleteQuestion(id) ==
    /\ calls < MaxCalls
    /\ calls' = calls + 1
    /\ LET questionIndex == findIndex(questions, id) IN
       IF questionIndex = 0
       THEN Rejected("delete", id, NoBody, "false")
       ELSE /\ timers < MaxTimers
            /\ questions' = splice(questions, questionIndex)
            /\ saveQuestions(questions')
            /\ lastCall' = Call("delete", id, NoBody, "true")
            /\ UNCHANGED nextId
    /\ UNCHANGED <<now, calcArgs, calcResult, tasks, watchEvents>>

completeQuestion(id, reviewData) ==
    /\ calls < MaxCalls
    /\ calls' = calls + 1
    /\ LET questionIndex == findIndex(questions, id) IN
       IF questionIndex = 0
       THEN Rejected("complete", id, reviewData, "NotFound")
       ELSE /\ timers < MaxTimers
            /\ questions' = [questions EXCEPT
                                ![questionIndex] = completedQuestion(@, reviewData, now)]
            /\ saveQuestions(questions')
            /\ lastCall' = Call("complete", id, reviewData, "ok")
            /\ UNCHANGED nextId
    /\ UNCHANGED <<now, calcArgs, calcResult, tasks, watchEvents>>

reviewQuestion(id, reviewData) ==
    /\ calls < MaxCalls
    /\ calls' = calls + 1
    /\ LET questionIndex == findIndex(questions, id) IN
       IF questionIndex = 0
       THEN Rejected("review", id, reviewData, "NotFound")
       ELSE /\ timers < MaxTimers
            /\ questions' = [questions EXCEPT
                                ![questionIndex] = reviewedQuestion(@, reviewData, now)]
            /\ saveQuestions(questions')
            /\ lastCall' = Call("review", id, reviewData, "ok")
            /\ UNCHANGED nextId
    /\ UNCHANGED <<now, calcArgs, calcResult, tasks, watchEvents>>

\* the array after resetQuestion(id) has reset the question it found
resetIn(qs, id) ==
    [qs EXCEPT ![findIndex(qs, id)] = resetQuestionRecord(@)]

resetQuestion(id) ==
    /\ calls < MaxCalls
    /\ calls' = calls + 1
    /\ LET questionIndex == findIndex(questions, id) IN
       IF questionIndex = 0
       THEN Rejected("reset", id, NoBody, "NotFound")
       ELSE /\ timers < MaxTimers
            /\ questions' = resetIn(questions, id)
            /\ saveQuestions(questions')
            /\ lastCall' = Call("reset", id, NoBody, "ok")
            /\ UNCHANGED nextId
    /\ UNCHANGED <<now, calcArgs, calcResult, tasks, watchEvents>>

\* getQuestionById(id): a read, it leaves the store and the call budget alone
getQuestionById(id) ==
    /\ returned' = Some(find(questions, id))
    /\ lastCall' = Call("get", id, NoBody, IF IsSet(find(questions, id)) THEN "ok" ELSE "null")
    /\ lastBody' = NoBody
    /\ UNCHANGED <<questions, nextId, isUpdatingFromFile, timers, file, now, calls,
                   calcArgs, calcResult, tasks, watchEvents>>

\* the setTimeout callback of saveQuestions
timerFires ==
    /\ timers > 0
    /\ timers' = timers - 1
    /\ isUpdatingFromFile' = FALSE
    /\ UNCHANGED <<questions, nextId, file, now, lastCall, calls, lastBody,
                   returned, calcArgs, calcResult, tasks, watchEvents>>

\* the wall clock advances by one tick; a tick is 1/TicksPerDay of a day, so
\* every 100 ms timer armed before it has fired by then
clockTick ==
    /\ now < MaxNow
    /\ timers = 0
    /\ now' = now + 1
    /\ UNCHANGED <<questions, nextId, isUpdatingFromFile, timers, file, lastCall,
                   calls, lastBody, returned, calcArgs, calcResult, tasks, watchEvents>>

----------------------------------------------------------------------------
(* The store driven by its operations, starting empty *)

Init ==
    /\ questions = <<>>
    /\ nextId = 1
    /\ isUpdatingFromFile = FALSE
    /\ timers = 0
    /\ file = <<>>
    /\ now = 0
    /\ lastCall = Call("none", 0, NoBody, "none")
    /\ calls = 0
    /\ lastBody = NoBody
    /\ returned = None
    /\ calcArgs = [reviewCount |-> 0, difficulty |-> "easy"]
    /\ calcResult = None
    /\ tasks = {}
    /\ watchEvents = 0

Next ==
    \/ \E data \in CreateBodies : createQuestion(data) /\ UNCHANGED <<lastBody, returned>>
    \/ \E id \in IdArgs, data \in UpdateBodies :
          updateQuestion(id, data) /\ UNCHANGED <<lastBody, returned>>
    \/ \E id \in IdArgs : deleteQuestion(id) /\ UNCHANGED <<lastBody, returned>>
    \/ \E id \in IdArgs, reviewData \in ReviewBodies :
          completeQuestion(id, reviewData) /\ UNCHANGED <<lastBody, returned>>
    \/ \E id \in IdArgs, reviewData \in ReviewBodies :
          reviewQuestion(id, reviewData) /\ UNCHANGED <<lastBody, returned>>
    \/ \E id \in IdArgs : resetQuestion(id) /\ UNCHANGED <<lastBody, returned>>
    \/ timerFires
    \/ clockTick

Spec == Init /\ [][Next]_vars

----------------------------------------------------------------------------
(* The same store, called at most MaxBodyCalls times within one clock tick,
   with a wider choice of names and with the request body of each call kept *)

MoreNames == Names \cup {"3Sum"}
OtherCategories == {"Two Pointers"}

CreateBodiesWide ==
    { Body(Some(n), Some(c), Some(u), nt, None) :
        n \in MoreNames, c \in Categories, u \in Urls, nt \in Opt(NoteTexts) }

UpdateBodiesWide ==
    { Body(n, c, u, nt, None) :
        n \in Opt(Names), c \in Opt(OtherCategories), u \in Opt(Urls),
        nt \in Opt(NoteTexts) }

\* the body of the call; of a call that found no question with the id it named
\* only the url is kept
Kept(body) ==
    IF lastCall'.outcome \in {"NotFound", "false"}
    THEN Body(None, None, body.leetcodeUrl, None, None)
    ELSE body

NextBody ==
    \/ \E data \in CreateBodiesWide :
          /\ calls < MaxBodyCalls
          /\ createQuestion(data)
          /\ lastBody' = Kept(data)
          /\ returned' = None
    \/ \E id \in IdArgs, data \in UpdateBodiesWide :
          /\ calls < MaxBodyCalls
          /\ updateQuestion(id, data)
          /\ lastBody' = Kept(data)
          /\ returned' = None
    \/ \E id \in IdArgs :
          /\ calls < MaxBodyCalls
          /\ deleteQuestion(id)
          /\ lastBody' = NoBody
          /\ returned' = None
    \/ \E id \in IdArgs, reviewData \in ReviewBodies :
          /\ calls < MaxBodyCalls
          /\ completeQuestion(id, reviewData)
          /\ lastBody' = Kept(reviewData)
          /\ returned' = None
    \/ \E id \in IdArgs, reviewData \in ReviewBodies :
          /\ calls < MaxBodyCalls
          /\ reviewQuestion(id, reviewData)
          /\ lastBody' = Kept(reviewData)
          /\ returned' = None
    \/ \E id \in IdArgs :
          /\ calls < MaxBodyCalls
          /\ resetQuestion(id)
          /\ lastBody' = NoBody
          /\ returned' = None
    \/ \E id \in IdArgs : getQuestionById(id)
    \/ timerFires

SpecBody == Init /\ [][NextBody]_vars

----------------------------------------------------------------------------
(* calculateNextReview on its own: the arguments are drawn at the start *)

calcCall ==
    /\ calcResult = None
    /\ tasks = {}
    /\ watchEvents = 0
    /\ calcResult' = Some(calculateNextReview(calcArgs.reviewCount,
                                              calcArgs.difficulty, now))
    /\ UNCHANGED <<questions, nextId, isUpdatingFromFile, timers, file, now, lastCall,
                   calls, lastBody, returned, calcArgs, tasks, watchEvents>>

InitCalc ==
    /\ questions = <<>>
    /\ nextId = 1
    /\ isUpdatingFromFile = FALSE
    /\ timers = 0
    /\ file = <<>>
    /\ now \in 0..MaxCalcNow
    /\ lastCall = Call("none", 0, NoBody, "none")
    /\ calls = 0
    /\ lastBody = NoBody
    /\ returned = None
    /\ calcArgs \in [reviewCount : 0..MaxCount, difficulty : Difficulties]
    /\ calcResult = None
    /\ tasks = {}
    /\ watchEvents = 0

NextCalc == calcCall

SpecCalc == InitCalc /\ [][NextCalc]_vars

----------------------------------------------------------------------------
(* The due classification on its own: the store is as loaded from a CSV file
   whose next_review column holds any instant, and the clock is anywhere *)

\* new Date(d.getFullYear(), d.getMonth(), d.getDate()) and d.setHours(0, 0, 0, 0)
dateOnly(t) == LocalMidnight(DayOf(t))

\* new Date("0") is a valid date, 1 January 2000, long before every tick
YearTwoThousand == LocalMidnight(0 - 1000)

\* new Date(s).getTime(); None stands for NaN
getTime(s) ==
    IF s \in {NotADate, EmptyString} THEN None
    ELSE IF s = ZeroString THEN Some(YearTwoThousand)
    ELSE Some(s)

\* a filter that takes "0" for a date, the first day of the year 2000
isDue_ZeroIsADate(q, t) ==
    IF ~truthy(q.nextReview) THEN FALSE
    ELSE IF ~IsSet(getTime(q.nextReview[1])) THEN FALSE
    ELSE dateOnly(getTime(q.nextReview[1])[1]) <= dateOnly(t)

\* the filter of getDueQuestions and getStats: a review date on or before today
isDue(q, t) ==
    IF ~truthy(q.nextReview) \/ q.nextReview[1] = ZeroString THEN FALSE
    ELSE IF ~IsSet(getTime(q.nextReview[1])) THEN FALSE
    ELSE dateOnly(getTime(q.nextReview[1])[1]) <= dateOnly(t)

\* the response of getDueQuestions(), t the value of new Date()
dueQuestionsResponse(qs, t) ==
    LET today == dateOnly(t)
        Due(q) == isDue(q, t)
        Overdue(q) == dateOnly(getTime(q.nextReview[1])[1]) < today
        DueToday(q) == dateOnly(getTime(q.nextReview[1])[1]) = today
        dueQuestions == SelectSeq(qs, Due)
    IN  [ questions |-> SelectSeq(dueQuestions, DueToday),
          overdue |-> SelectSeq(dueQuestions, Overdue) ]

\* frontend isDueForReview(nextReview), t the value of new Date()
isDueForReview(nextReview, t) ==
    IF ~IsSet(nextReview) THEN FALSE
    ELSE nextReview[1] <= t

\* frontend isOverdue(nextReview)
isOverdue(nextReview, t) ==
    IF ~IsSet(nextReview) THEN FALSE
    ELSE dateOnly(nextReview[1]) < dateOnly(t)

\* frontend getDaysOverdue(nextReview); \div rounds down as Math.floor does
getDaysOverdue(nextReview, t) ==
    IF ~IsSet(nextReview) THEN 0
    ELSE (dateOnly(t) - dateOnly(nextReview[1])) \div TicksPerDay

\* what the question list and the review queue compute for one question
classification(q, t) ==
    [ overdue |-> isOverdue(q.nextReview, t),
      dueToday |-> ~isOverdue(q.nextReview, t) /\ isDueForReview(q.nextReview, t),
      daysOverdue |-> getDaysOverdue(q.nextReview, t) ]

\* Array.prototype.sort on <<key, value>> records with the comparator
\* (a, b) => a.key - b.key: ascending in the key, equal keys keep their order
RECURSIVE sort(_)
sort(pairs) ==
    IF pairs = <<>> THEN <<>>
    ELSE LET first == Head(pairs)
             rest == sort(Tail(pairs))
             Before(p) == p.key < first.key
             NotBefore(p) == p.key >= first.key
         IN  SelectSeq(rest, Before) \o <<first>> \o SelectSeq(rest, NotBefore)

values(pairs) == [i \in 1..Len(pairs) |-> pairs[i].value]

\* the four lists of the ReviewQueue component, t the value of new Date()
reviewQueueGroups(qs, t) ==
    LET InReview(q) == q.status = "under_review" /\ truthy(q.nextReview)
        reviewQuestions == SelectSeq(qs, InReview)
        Overdue(q) == isOverdue(q.nextReview, t)
        DueToday(q) == ~isOverdue(q.nextReview, t) /\ isDueForReview(q.nextReview, t)
        threeDaysFromNow == t + 3 * TicksPerDay
        Upcoming(q) == q.nextReview[1] > t /\ q.nextReview[1] <= threeDaysFromNow
        NeedsAttention(q) == q.status = "needs_attention"
        overdue == SelectSeq(reviewQuestions, Overdue)
        upcoming == SelectSeq(reviewQuestions, Upcoming)
    IN  [ overdue |-> values(sort([i \in 1..Len(overdue) |->
                        [ key |-> 0 - getDaysOverdue(overdue[i].nextReview, t),
                          value |-> overdue[i] ]])),
          dueToday |-> SelectSeq(reviewQuestions, DueToday),
          upcoming |-> values(sort([i \in 1..Len(upcoming) |->
                        [ key |-> upcoming[i].nextReview[1],
                          value |-> upcoming[i] ]])),
          needsAttention |-> SelectSeq(qs, NeedsAttention) ]

\* a record as read from the file: never completed when next_review is empty;
\* otherwise completed once (under_review) or completed and then reviewed as
\* hard (needs_attention), with the instant of next_review as its review date
loadedQuestion(id, url, status, nextReview) ==
    LET created == newQuestion(id, Body(Some("Two Sum"), Some("Arrays"), Some(url),
                                        None, None))
        completed == completedQuestion(created,
                                       Body(None, None, None, None, Some("easy")), 0)
        reviewed == reviewedQuestion(completed,
                                     Body(None, None, None, None, Some("hard")), 0)
    IN  IF ~IsSet(nextReview) THEN created
        ELSE IF status = "needs_attention"
        THEN [reviewed EXCEPT !.nextReview = nextReview]
        ELSE [completed EXCEPT !.nextReview = nextReview]

ReviewStatuses == {"under_review", "needs_attention"}

DueTicks == 0..MaxDueTick

getDueQuestions ==
    /\ returned' = Some(dueQuestionsResponse(questions, now))
    /\ lastCall' = Call("due", 0, NoBody, "ok")
    /\ UNCHANGED <<questions, nextId, isUpdatingFromFile, timers, file, now, calls,
                   lastBody, calcArgs, calcResult, tasks, watchEvents>>

\* the page classifies every question it shows
classify ==
    /\ returned' = Some([i \in 1..Len(questions) |-> classification(questions[i], now)])
    /\ lastCall' = Call("classify", 0, NoBody, "ok")
    /\ UNCHANGED <<questions, nextId, isUpdatingFromFile, timers, file, now, calls,
                   lastBody, calcArgs, calcResult, tasks, watchEvents>>

\* the ReviewQueue component renders
reviewQueue ==
    /\ returned' = Some(reviewQueueGroups(questions, now))
    /\ lastCall' = Call("queue", 0, NoBody, "ok")
    /\ UNCHANGED <<questions, nextId, isUpdatingFromFile, timers, file, now, calls,
                   lastBody, calcArgs, calcResult, tasks, watchEvents>>

\* a store of two questions as loaded from a file
LoadedStores(DateStrings) ==
    { << loadedQuestion(1, "https://leetcode.com/problems/two-sum/", s1, first),
         loadedQuestion(2, "https://leetcode.com/problems/3sum/", s2, second) >> :
        first \in Opt(DateStrings), second \in Opt(DateStrings),
        s1 \in ReviewStatuses, s2 \in ReviewStatuses }

InitDue ==
    /\ questions \in LoadedStores(DueTicks)
    /\ nextId = 3
    /\ isUpdatingFromFile = FALSE
    /\ timers = 0
    /\ file = writeQuestions(questions)
    /\ now \in DueTicks
    /\ lastCall = Call("none", 0, NoBody, "none")
    /\ calls = 0
    /\ lastBody = NoBody
    /\ returned = None
    /\ calcArgs = [reviewCount |-> 0, difficulty |-> "easy"]
    /\ calcResult = None
    /\ tasks = {}
    /\ watchEvents = 0

NextDue ==
    \/ getDueQuestions
    \/ classify
    \/ reviewQueue

SpecDue == InitDue /\ [][NextDue]_vars

-----------------------------------------------------------------------------
(* csvService.ts: reading the file; questionService.ts: getStats *)

\* parseCSVRow: an empty field reads as undefined; "0" and text that is no
\* date stay as they are
parseCSVRow(row) ==
    [ id |-> parseInt(row.id),
      name |-> row.name,
      category |-> row.category,
      leetcodeUrl |-> row.leetcode_url,
      leetcodeDifficulty |-> None,
      status |-> IF row.status # "" THEN row.status ELSE "not_started",
      firstCompleted |-> orUndefined(row.first_completed),
      lastReviewed |-> orUndefined(row.last_reviewed),
      nextReview |-> orUndefined(row.next_review),
      reviewCount |-> orZero(parseInt(row.review_count)),
      difficultyHistory |-> IF row.difficulty_history # <<>>
                            THEN split(row.difficulty_history) ELSE <<>>,
      notes |-> row.notes ]

\* the questions readQuestions resolves with
readQuestions(rows) == [i \in 1..Len(rows) |-> parseCSVRow(rows[i])]

\* reviewedThisWeek of getStats; a comparison with NaN is false, so a
\* lastReviewed that is no date is not "before weekAgo"
reviewedThisWeek(qs, t) ==
    LET weekAgo == t - 7 * TicksPerDay
        Reviewed(q) ==
            IF ~truthy(q.lastReviewed)
               \/ (IsSet(getTime(q.lastReviewed[1]))
                      /\ getTime(q.lastReviewed[1])[1] < weekAgo)
            THEN FALSE
            ELSE q.reviewCount > 1 /\ q.lastReviewed # q.firstCompleted
    IN  Len(SelectSeq(qs, Reviewed))

\* completedThisWeek of getStats
completedThisWeek(qs, t) ==
    LET weekAgo == t - 7 * TicksPerDay
        Completed(q) ==
            /\ truthy(q.firstCompleted)
            /\ IsSet(getTime(q.firstCompleted[1]))
            /\ getTime(q.firstCompleted[1])[1] >= weekAgo
    IN  Len(SelectSeq(qs, Completed))

\* statistics that count a question needing attention as completed
statsResponse_NeedsAttentionCompleted(qs, t) ==
    LET today == dateOnly(t)
        Completed(q) == q.status # "not_started"
        InReview(q) == q.status = "under_review"
        Due(q) ==
            IF ~truthy(q.nextReview) \/ q.nextReview[1] = ZeroString THEN FALSE
            ELSE IF ~IsSet(getTime(q.nextReview[1])) THEN FALSE
            ELSE dateOnly(getTime(q.nextReview[1])[1]) <= today
        Overdue(q) == dateOnly(getTime(q.nextReview[1])[1]) < today
        DueToday(q) == dateOnly(getTime(q.nextReview[1])[1]) = today
        dueQuestions == SelectSeq(qs, Due)
    IN  [ totalQuestions |-> Len(qs),
          completed |-> Len(SelectSeq(qs, Completed)),
          inReview |-> Len(SelectSeq(qs, InReview)),
          dueToday |-> Len(SelectSeq(dueQuestions, DueToday)),
          overdue |-> Len(SelectSeq(dueQuestions, Overdue)),
          completedThisWeek |-> completedThisWeek(qs, t),
          reviewedThisWeek |-> reviewedThisWeek(qs, t) ]

\* the response of getStats(), t the value of new Date()
statsResponse(qs, t) ==
    LET today == dateOnly(t)
        Completed(q) == q.status = "completed" \/ q.status = "under_review"
        InReview(q) == q.status = "under_review"
        Due(q) ==
            IF ~truthy(q.nextReview) \/ q.nextReview[1] = ZeroString THEN FALSE
            ELSE IF ~IsSet(getTime(q.nextReview[1])) THEN FALSE
            ELSE dateOnly(getTime(q.nextReview[1])[1]) <= today
        Overdue(q) == dateOnly(getTime(q.nextReview[1])[1]) < today
        DueToday(q) == dateOnly(getTime(q.nextReview[1])[1]) = today
        dueQuestions == SelectSeq(qs, Due)
    IN  [ totalQuestions |-> Len(qs),
          completed |-> Len(SelectSeq(qs, Completed)),
          inReview |-> Len(SelectSeq(qs, InReview)),
          dueToday |-> Len(SelectSeq(dueQuestions, DueToday)),
          overdue |-> Len(SelectSeq(dueQuestions, Overdue)),
          completedThisWeek |-> completedThisWeek(qs, t),
          reviewedThisWeek |-> reviewedThisWeek(qs, t) ]

getStats ==
    /\ returned' = Some(statsResponse(questions, now))
    /\ lastCall' = Call("stats", 0, NoBody, "ok")
    /\ UNCHANGED <<questions, nextId, isUpdatingFromFile, timers, file, now, calls,
                   lastBody, calcArgs, calcResult, tasks, watchEvents>>

MaxStatsTick == 3
MaxStamp == 2
MaxReviewCount == 2

QuestionStatuses == {"not_started", "completed", "under_review", "needs_attention"}

\* a row of the file, left untouched by the service or edited by hand
Row(id, url, status, first, last, next, reviews) ==
    [ id |-> id,
      name |-> "Two Sum",
      category |-> "Arrays",
      leetcode_url |-> url,
      status |-> status,
      first_completed |-> orEmptyString(first),
      last_reviewed |-> orEmptyString(last),
      next_review |-> orEmptyString(next),
      review_count |-> reviews,
      difficulty_history |-> <<>>,
      notes |-> "" ]

\* rows that differ in status and next_review: an instant, "0", text that is
\* no date, or nothing
DueRows(id, url) ==
    { Row(id, url, status,
          IF status = "not_started" THEN None ELSE Some(0),
          IF status = "not_started" THEN None ELSE Some(0),
          next,
          IF status = "not_started" THEN 0 ELSE 1) :
        status \in QuestionStatuses,
        next \in Opt({ZeroString, NotADate} \cup 0..MaxStatsTick) }

\* rows that differ in first_completed, last_reviewed and review_count
WeekRows(id, url) ==
    { Row(id, url, "under_review", first, last, None, reviews) :
        first \in Opt({NotADate} \cup 0..MaxStamp),
        last \in Opt({NotADate} \cup 0..MaxStamp),
        reviews \in 0..MaxReviewCount }

\* files of up to two rows
Files(FirstRows, SecondRows) ==
    {<<>>}
    \cup { <<r>> : r \in FirstRows }
    \cup { <<r1, r2>> : r1 \in FirstRows, r2 \in SecondRows }

\* the state after initialize() has read the file, at some later instant
InitStats ==
    /\ \/ /\ file \in Files(DueRows(1, "https://leetcode.com/problems/two-sum/"),
                         DueRows(2, "https://leetcode.com/problems/3sum/"))
          /\ now \in 0..MaxStatsTick
       \/ /\ file \in Files(WeekRows(1, "https://leetcode.com/problems/two-sum/"),
                         WeekRows(2, "https://leetcode.com/problems/3sum/"))
          /\ now \in (7 * TicksPerDay)..(7 * TicksPerDay + MaxStamp)
    /\ questions = readQuestions(file)
    /\ nextId = Len(questions) + 1
    /\ isUpdatingFromFile = FALSE
    /\ timers = 0
    /\ lastCall = Call("none", 0, NoBody, "none")
    /\ calls = 0
    /\ lastBody = NoBody
    /\ returned = None
    /\ calcArgs = [reviewCount |-> 0, difficulty |-> "easy"]
    /\ calcResult = None
    /\ tasks = {}
    /\ watchEvents = 0

NextStats ==
    \/ getDueQuestions
    \/ getStats

SpecStats == InitStats /\ [][NextStats]_vars

-----------------------------------------------------------------------------
(* questionService.ts: getAllQuestions. A category is a sequence of letters
   here, so that the case of a letter and the place of a substring exist. *)

\* String.prototype.toLowerCase on the letters in use
toLowerCase(s) ==
    [i \in 1..Len(s) |-> IF s[i] = "A" THEN "a" ELSE IF s[i] = "B" THEN "b" ELSE s[i]]

\* String.prototype.includes
includes(s, part) ==
    \E start \in 0..(Len(s) - Len(part)) : SubSeq(s, start + 1, start + Len(part)) = part

\* Array.prototype.slice(startIndex, endIndex) for indices that are not negative
slice(list, startIndex, endIndex) ==
    SubSeq(list, startIndex + 1, Min(endIndex, Len(list)))

\* a listing whose first page is page 0
questionsResponse_PageFromZero(qs, filters) ==
    LET ByCategory(q) == includes(toLowerCase(q.category), toLowerCase(filters.category[1]))
        ByStatus(q) == q.status = filters.status[1]
        inCategory == IF IsSet(filters.category) /\ filters.category[1] # <<>>
                      THEN SelectSeq(qs, ByCategory) ELSE qs
        filtered == IF IsSet(filters.status) THEN SelectSeq(inCategory, ByStatus)
                    ELSE inCategory
        page == IF filters.page # 0 THEN filters.page ELSE 1
        limit == IF filters.limit # 0 THEN filters.limit ELSE 50
        startIndex == page * limit
        endIndex == startIndex + limit
    IN  [ questions |-> slice(filtered, startIndex, endIndex),
          total |-> Len(filtered),
          page |-> page ]

\* the response of getAllQuestions(filters); an empty category is falsy and
\* filters nothing
questionsResponse(qs, filters) ==
    LET ByCategory(q) == includes(toLowerCase(q.category), toLowerCase(filters.category[1]))
        ByStatus(q) == q.status = filters.status[1]
        inCategory == IF IsSet(filters.category) /\ filters.category[1] # <<>>
                      THEN SelectSeq(qs, ByCategory) ELSE qs
        filtered == IF IsSet(filters.status) THEN SelectSeq(inCategory, ByStatus)
                    ELSE inCategory
        page == IF filters.page # 0 THEN filters.page ELSE 1
        limit == IF filters.limit # 0 THEN filters.limit ELSE 50
        startIndex == (page - 1) * limit
        endIndex == startIndex + limit
    IN  [ questions |-> slice(filtered, startIndex, endIndex),
          total |-> Len(filtered),
          page |-> page ]

MaxPage == 3
MaxLimit == 2
DefaultLimit == 50

\* what QuestionFiltersSchema.parse gives: page at least 1, 1 when the query
\* has none; limit at least 1, 50 when the query has none
QuestionFilters ==
    [ category : Opt({<<>>, <<"a">>, <<"b">>, <<"A", "B">>}),
      status : Opt(QuestionStatuses),
      page : 1..MaxPage,
      limit : (1..MaxLimit) \cup {DefaultLimit} ]

\* GET /questions: the parsed query is drawn at the start and kept in lastBody
getAllQuestions ==
    /\ returned = None
    /\ returned' = Some(questionsResponse(questions, lastBody))
    /\ lastCall' = Call("list", 0, NoBody, "ok")
    /\ UNCHANGED <<questions, nextId, isUpdatingFromFile, timers, file, now, calls,
                   lastBody, calcArgs, calcResult, tasks, watchEvents>>

ProblemUrls == << "https://leetcode.com/problems/two-sum/",
                  "https://leetcode.com/problems/3sum/",
                  "https://leetcode.com/problems/lru-cache/" >>

ListedCategories == {<<"A", "b">>, <<"a">>, <<"b", "A">>}
ListedStatuses == {"not_started", "completed"}

\* question id of a store, with a category and a status of its own
listedQuestion(id, category, status) ==
    [ parseCSVRow(Row(id, ProblemUrls[id], status,
                      IF status = "not_started" THEN None ELSE Some(0),
                      IF status = "not_started" THEN None ELSE Some(0),
                      None,
                      IF status = "not_started" THEN 0 ELSE 1))
        EXCEPT !.category = category ]

\* stores of no to three questions
ListedStores ==
    UNION { { [i \in 1..n |-> listedQuestion(i, kind[i][1], kind[i][2])] :
                kind \in [1..n -> ListedCategories \X ListedStatuses] } :
            n \in 0..Len(ProblemUrls) }

InitList ==
    /\ questions \in ListedStores
    /\ nextId = Len(questions) + 1
    /\ isUpdatingFromFile = FALSE
    /\ timers = 0
    /\ file = writeQuestions(questions)
    /\ now = 0
    /\ lastCall = Call("none", 0, NoBody, "none")
    /\ calls = 0
    /\ lastBody \in QuestionFilters
    /\ returned = None
    /\ calcArgs = [reviewCount |-> 0, difficulty |-> "easy"]
    /\ calcResult = None
    /\ tasks = {}
    /\ watchEvents = 0

NextList == getAllQuestions

SpecList == InitList /\ [][NextList]_vars

-----------------------------------------------------------------------------
(* The same service with its awaits: a handler runs up to its next await in one
   step, and the steps of different handlers interleave. A write waits for
   fs.mkdir, then for writer.writeRecords; a reload waits for readQuestions.
   The file is written and read at some instant while the handler waits. *)

MaxTasks == 2         \* mutating requests and reloads started in one run

\* Math.max(...questions.map(q => q.id), 0)
maxId(qs) ==
    IF qs = <<>> THEN 0
    ELSE IF \E i \in 1..Len(qs) : qs[i].id = NaN THEN NaN
    ELSE CHOOSE m \in {qs[i].id : i \in 1..Len(qs)} : \A i \in 1..Len(qs) : qs[i].id <= m

\* a handler waiting at an await. array is the array writeQuestions was given
\* once this.questions no longer refers to it (None while it still does);
\* records is what a write is writing or what a reload has read; overtaken
\* tells that a mutation or a write took effect after the reload read the file
Task(n, kind, phase, op, array, records, overtaken) ==
    [ n |-> n, kind |-> kind, phase |-> phase, op |-> op, array |-> array,
      records |-> records, overtaken |-> overtaken ]

\* the reloads that have read the file see a mutation or a write overtake them
overtake(ts) ==
    { IF t.kind = "reload" /\ t.phase = "read" THEN [t EXCEPT !.overtaken = TRUE] ELSE t :
        t \in ts }

\* saveQuestions() up to the await of fs.mkdir inside writeQuestions
saveQuestionsBegins(op) ==
    /\ isUpdatingFromFile' = TRUE
    /\ tasks' = overtake(tasks)
                   \cup {Task(calls + 1, "write", "mkdir", op, None, None, FALSE)}

AsyncCreateBodies == {data \in CreateBodies : data.notes = None}
AsyncReviewBodies == {data \in ReviewBodies : data.notes = None /\ data.difficulty = Some("easy")}

\* createQuestion up to its first await
createQuestionBegins(data) ==
    /\ calls < MaxTasks
    /\ calls' = calls + 1
    /\ IF urlTaken(questions, data.leetcodeUrl[1], 0)
       THEN /\ lastCall' = Call("create", 0, NoBody, "DuplicateUrl")
            /\ UNCHANGED <<questions, nextId, isUpdatingFromFile, tasks>>
       ELSE /\ questions' = Append(questions, newQuestion(nextId, data))
            /\ nextId' = increment(nextId)
            /\ saveQuestionsBegins(Call("create", nextId, data, "ok"))
            /\ UNCHANGED lastCall
    /\ UNCHANGED <<timers, file, now, lastBody, returned, calcArgs, calcResult,
                   watchEvents>>

\* completeQuestion up to the await of fs.mkdir; the await of getQuestionById
\* resumes before any other handler runs
completeQuestionBegins(id, reviewData) ==
    /\ calls < MaxTasks
    /\ calls' = calls + 1
    /\ LET questionIndex == findIndex(questions, id) IN
       IF questionIndex = 0
       THEN /\ lastCall' = Call("complete", id, NoBody, "NotFound")
            /\ UNCHANGED <<questions, isUpdatingFromFile, tasks>>
       ELSE /\ questions' = [questions EXCEPT
                                ![questionIndex] = completedQuestion(@, reviewData, now)]
            /\ saveQuestionsBegins(Call("complete", id, reviewData, "ok"))
            /\ UNCHANGED lastCall
    /\ UNCHANGED <<nextId, timers, file, now, lastBody, returned, calcArgs, calcResult,
                   watchEvents>>

\* fs.mkdir resolves: writeQuestions maps the array it was given to records
\* and awaits writer.writeRecords
mkdirResolves(t) ==
    /\ t \in tasks /\ t.kind = "write" /\ t.phase = "mkdir"
    /\ tasks' = (tasks \ {t})
                  \cup {[t EXCEPT !.phase = "writing",
                                  !.records = Some(writeQuestions(
                                      IF IsSet(t.array) THEN t.array[1] ELSE questions))]}
    /\ UNCHANGED <<questions, nextId, isUpdatingFromFile, timers, file, now, lastCall,
                   calls, lastBody, returned, calcArgs, calcResult, watchEvents>>

\* the records reach the file; the watcher will see the change
recordsWritten(t) ==
    /\ t \in tasks /\ t.kind = "write" /\ t.phase = "writing"
    /\ file' = t.records[1]
    /\ watchEvents' = watchEvents + 1
    /\ tasks' = overtake(tasks \ {t}) \cup {[t EXCEPT !.phase = "written"]}
    /\ UNCHANGED <<questions, nextId, isUpdatingFromFile, timers, now, lastCall,
                   calls, lastBody, returned, calcArgs, calcResult>>

\* writer.writeRecords resolves: saveQuestions arms its timer and the
\* operation returns
writeResolves(t) ==
    /\ t \in tasks /\ t.kind = "write" /\ t.phase = "written"
    /\ timers' = timers + 1
    /\ tasks' = tasks \ {t}
    /\ lastCall' = t.op
    /\ UNCHANGED <<questions, nextId, isUpdatingFromFile, file, now, calls, lastBody,
                   returned, calcArgs, calcResult, watchEvents>>

\* reloadFromFile() up to the await of readQuestions; caller is "reload" for
\* the callback of the watcher and "refresh" for the route
reloadFromFileBegins(caller) ==
    /\ calls < MaxTasks
    /\ calls' = calls + 1
    /\ IF isUpdatingFromFile
       THEN /\ lastCall' = Call(caller, 0, NoBody, "suppressed")
            /\ UNCHANGED tasks
       ELSE /\ tasks' = tasks \cup {Task(calls + 1, "reload", "reading",
                                         Call(caller, 0, NoBody, "ok"),
                                         None, None, FALSE)}
            /\ UNCHANGED lastCall
    /\ UNCHANGED <<questions, nextId, isUpdatingFromFile, timers, file, now, lastBody,
                   returned, calcArgs, calcResult>>

\* the watcher reports a change of the file: the callback calls reloadFromFile
watcherReports ==
    /\ watchEvents > 0
    /\ watchEvents' = watchEvents - 1
    /\ reloadFromFileBegins("reload")

\* POST /questions/refresh: the route answers 'Data refreshed from CSV file
\* successfully' when reloadFromFile returns
refreshFromFile ==
    /\ reloadFromFileBegins("refresh")
    /\ UNCHANGED watchEvents

\* the stream of readQuestions reads the file
fileRead(t) ==
    /\ t \in tasks /\ t.kind = "reload" /\ t.phase = "reading"
    /\ tasks' = (tasks \ {t}) \cup {[t EXCEPT !.phase = "read", !.records = Some(file)]}
    /\ UNCHANGED <<questions, nextId, isUpdatingFromFile, timers, file, now, lastCall,
                   calls, lastBody, returned, calcArgs, calcResult, watchEvents>>

\* a write that still waits for fs.mkdir keeps the array it was given
keepArray(ts) ==
    { IF t.kind = "write" /\ t.phase = "mkdir" /\ ~IsSet(t.array)
      THEN [t EXCEPT !.array = Some(questions)] ELSE t : t \in ts }

\* readQuestions resolves: reloadFromFile replaces the array and the counter
readResolves(t) ==
    /\ t \in tasks /\ t.kind = "reload" /\ t.phase = "read"
    /\ questions' = readQuestions(t.records[1])
    /\ nextId' = increment(maxId(questions'))
    /\ tasks' = keepArray(tasks \ {t})
    /\ lastCall' = [t.op EXCEPT !.id = t.n]
    /\ returned' = Some(t)
    /\ UNCHANGED <<isUpdatingFromFile, timers, file, now, calls, lastBody, calcArgs,
                   calcResult, watchEvents>>

\* somebody adds a row to the file by hand, with the next free id of the file
fileEdited ==
    /\ ~urlTaken(readQuestions(file), ProblemUrls[3], 0)
    /\ ~urlTaken(questions, ProblemUrls[3], 0)
    /\ file' = Append(file, Row(maxId(readQuestions(file)) + 1, ProblemUrls[3],
                                "not_started", None, None, None, 0))
    /\ watchEvents' = watchEvents + 1
    /\ UNCHANGED <<questions, nextId, isUpdatingFromFile, timers, now, lastCall, calls,
                   lastBody, returned, calcArgs, calcResult, tasks>>

\* the state after initialize() has read a file of one row
InitAsync ==
    /\ file = <<Row(1, "https://leetcode.com/problems/two-sum/", "not_started",
                    None, None, None, 0)>>
    /\ questions = readQuestions(file)
    /\ nextId = increment(maxId(questions))
    /\ isUpdatingFromFile = FALSE
    /\ timers = 0
    /\ now = 0
    /\ lastCall = Call("none", 0, NoBody, "none")
    /\ calls = 0
    /\ lastBody = NoBody
    /\ returned = None
    /\ calcArgs = [reviewCount |-> 0, difficulty |-> "easy"]
    /\ calcResult = None
    /\ tasks = {}
    /\ watchEvents = 0

NextAsync ==
    \/ \E data \in AsyncCreateBodies : createQuestionBegins(data)
    \/ \E id \in IdArgs, reviewData \in AsyncReviewBodies :
          completeQuestionBegins(id, reviewData)
    \/ \E t \in tasks : mkdirResolves(t)
    \/ \E t \in tasks : recordsWritten(t)
    \/ \E t \in tasks : writeResolves(t)
    \/ watcherReports
    \/ refreshFromFile
    \/ \E t \in tasks : fileRead(t)
    \/ \E t \in tasks : readResolves(t)
    \/ fileEdited
    \/ timerFires

SpecAsync == InitAsync /\ [][NextAsync]_vars

\* fs.mkdir or writer.writeRecords rejects before the records reach the file:
\* saveQuestions throws at its await, past the line that raised the flag and
\* short of the line that arms the timer, and the operation throws to its
\* caller
writeRejects(t) ==
    /\ t \in tasks /\ t.kind = "write" /\ t.phase \in {"mkdir", "writing"}
    /\ tasks' = tasks \ {t}
    /\ lastCall' = [t.op EXCEPT !.outcome = "WriteFailed"]
    /\ UNCHANGED <<questions, nextId, isUpdatingFromFile, timers, file, now, calls,
                   lastBody, returned, calcArgs, calcResult, watchEvents>>

\* the stream of readQuestions fails: reloadFromFile logs the error in its
\* catch and returns
readRejects(t) ==
    /\ t \in tasks /\ t.kind = "reload" /\ t.phase = "reading"
    /\ tasks' = tasks \ {t}
    /\ lastCall' = [t.op EXCEPT !.id = t.n, !.outcome = "ReadFailed"]
    /\ UNCHANGED <<questions, nextId, isUpdatingFromFile, timers, file, now, calls,
                   lastBody, returned, calcArgs, calcResult, watchEvents>>

NextFault ==
    \/ NextAsync
    \/ \E t \in tasks : writeRejects(t)
    \/ \E t \in tasks : readRejects(t)

\* the handlers with a file system that may fail
SpecFault == InitAsync /\ [][NextFault]_vars

\* The event loop runs every continuation that is ready: a write or a read
\* that waits settles (it resolves or it rejects), and an armed timer fires
Fairness ==
    /\ WF_vars(timerFires)
    /\ WF_vars(\E t \in tasks : mkdirResolves(t) \/ recordsWritten(t) \/ writeResolves(t)
                                  \/ writeRejects(t))
    /\ WF_vars(\E t \in tasks : fileRead(t) \/ readResolves(t) \/ readRejects(t))

SpecFaultLive == SpecFault /\ Fairness

-----------------------------------------------------------------------------
(* Reviews of one question that has been reviewed before: the file holds the
   question with any review count, and reviewQuestion is called on it *)

PlainReviewBodies == {data \in ReviewBodies : data.notes = None}

\* the row of a question completed at instant 0 and reviewed reviews - 1 times
reviewedRow(reviews) ==
    [ Row(1, "https://leetcode.com/problems/two-sum/", "under_review",
          Some(0), Some(0), Some(LocalMidnight(1)), reviews)
        EXCEPT !.difficulty_history = join([i \in 1..reviews |-> "easy"]) ]

InitReview ==
    /\ file \in { <<reviewedRow(reviews)>> : reviews \in 1..MaxCount }
    /\ questions = readQuestions(file)
    /\ nextId = increment(maxId(questions))
    /\ isUpdatingFromFile = FALSE
    /\ timers = 0
    /\ now \in 0..MaxCalcNow
    /\ lastCall = Call("none", 0, NoBody, "none")
    /\ calls = 0
    /\ lastBody = NoBody
    /\ returned = None
    /\ calcArgs = [reviewCount |-> 0, difficulty |-> "easy"]
    /\ calcResult = None
    /\ tasks = {}
    /\ watchEvents = 0

NextReview ==
    \/ \E reviewData \in PlainReviewBodies :
          reviewQuestion(1, reviewData) /\ UNCHANGED <<lastBody, returned>>
    \/ timerFires

SpecReview == InitReview /\ [][NextReview]_vars

-----------------------------------------------------------------------------
(* The two CSV adapters, written and read back: csvService.ts of the backend
   and utils/csvHandler.ts of the frontend (localStorage) *)

\* new Date(s).toISOString().split('T')[0]: the text of the calendar day of
\* the instant s, a string other than every instant string
isoDay(s) == 0 - 10 - DayOf(s)

headers ==
    <<"id", "name", "category", "leetcode_url", "status", "first_completed",
      "last_reviewed", "next_review", "review_count", "difficulty_history", "notes">>

\* The content questionsToCSV returns, as parseCSV takes it apart: the line of
\* the headers, then for every question the values between the commas of its
\* line. The history is joined with commas and is not quoted, so each of its
\* elements is a value of the line
questionsToCSV(qs) ==
    <<headers>> \o
    [i \in 1..Len(qs) |->
        <<qs[i].id, qs[i].name, qs[i].category, qs[i].leetcodeUrl, qs[i].status,
          IF truthy(qs[i].firstCompleted)
          THEN isoDay(qs[i].firstCompleted[1]) ELSE EmptyString,
          IF truthy(qs[i].lastReviewed)
          THEN isoDay(qs[i].lastReviewed[1]) ELSE EmptyString,
          IF truthy(qs[i].nextReview)
          THEN isoDay(qs[i].nextReview[1]) ELSE EmptyString,
          qs[i].reviewCount>>
        \o (IF qs[i].difficultyHistory = <<>> THEN <<"">> ELSE qs[i].difficultyHistory)
        \o <<qs[i].notes>>]

validateStatus(status) ==
    IF status \in {"not_started", "completed", "under_review", "needs_attention"}
    THEN status ELSE "not_started"

csvRowToQuestion(row) ==
    LET Valid(d) == d \in {"easy", "medium", "hard"}
    IN  [ id |-> orZero(parseInt(row.id)),
          name |-> row.name,
          category |-> row.category,
          leetcodeUrl |-> row.leetcode_url,
          leetcodeDifficulty |-> None,
          status |-> validateStatus(row.status),
          firstCompleted |-> orUndefined(row.first_completed),
          lastReviewed |-> orUndefined(row.last_reviewed),
          nextReview |-> orUndefined(row.next_review),
          reviewCount |-> orZero(parseInt(row.review_count)),
          difficultyHistory |-> IF row.difficulty_history # <<>>
                                THEN SelectSeq(split(row.difficulty_history), Valid)
                                ELSE <<>>,
          notes |-> row.notes ]

\* the row parseCSV makes of the first 11 values of a line
rowOfValues(vals) ==
    [ id |-> vals[1],
      name |-> vals[2],
      category |-> vals[3],
      leetcode_url |-> vals[4],
      status |-> IF vals[5] # "" THEN vals[5] ELSE "not_started",
      first_completed |-> vals[6],
      last_reviewed |-> vals[7],
      next_review |-> vals[8],
      review_count |-> IF vals[9] # EmptyString THEN vals[9] ELSE 0,
      difficulty_history |-> IF vals[10] # "" THEN <<vals[10]>> ELSE <<>>,
      notes |-> vals[11] ]

\* parseCSV passes over the first line and over the lines of fewer than 11
\* values, and keeps the questions with an id above 0
RECURSIVE parseLines(_)
parseLines(lines) ==
    IF lines = <<>> THEN <<>>
    ELSE IF Len(Head(lines)) < 11 THEN parseLines(Tail(lines))
    ELSE LET question == csvRowToQuestion(rowOfValues(Head(lines)))
         IN  IF question.id > 0 THEN <<question>> \o parseLines(Tail(lines))
             ELSE parseLines(Tail(lines))

parseCSV(csvContent) ==
    IF Len(csvContent) <= 1 THEN <<>> ELSE parseLines(Tail(csvContent))

\* writeQuestions, then readQuestions
writeThenRead ==
    /\ returned = None
    /\ file' = writeQuestions(questions)
    /\ returned' = Some(readQuestions(file'))
    /\ lastCall' = Call("csvService", 0, NoBody, "ok")
    /\ UNCHANGED <<questions, nextId, isUpdatingFromFile, timers, now, calls,
                   lastBody, calcArgs, calcResult, tasks, watchEvents>>

\* saveToLocalStorage, then loadFromLocalStorage; lastBody is the stored item
saveThenLoad ==
    /\ returned = None
    /\ lastBody' = questionsToCSV(questions)
    /\ returned' = Some(parseCSV(lastBody'))
    /\ lastCall' = Call("csvHandler", 0, NoBody, "ok")
    /\ UNCHANGED <<questions, nextId, isUpdatingFromFile, timers, file, now, calls,
                   calcArgs, calcResult, tasks, watchEvents>>

MaxHistory == 2

Histories == UNION { [1..n -> Difficulties] : n \in 0..MaxHistory }

\* a question with any status, dates, count, history and notes
storedQuestion(status, first, last, next, reviews, history, notes) ==
    [ newQuestion(1, Body(Some("Two Sum"), Some("Arrays"),
                          Some("https://leetcode.com/problems/two-sum/"),
                          Some(notes), None))
        EXCEPT !.status = status, !.firstCompleted = first, !.lastReviewed = last,
               !.nextReview = next, !.reviewCount = reviews,
               !.difficultyHistory = history ]

StoredStores ==
    {<<>>}
    \cup { <<storedQuestion(status, first, last, next, reviews, history, notes)>> :
             status \in QuestionStatuses,
             first \in Opt(0..MaxStamp), last \in Opt(0..MaxStamp),
             next \in Opt(0..MaxStamp), reviews \in 0..MaxReviewCount,
             history \in Histories, notes \in NoteTexts }

InitRound ==
    /\ questions \in StoredStores
    /\ nextId = Len(questions) + 1
    /\ isUpdatingFromFile = FALSE
    /\ timers = 0
    /\ file = <<>>
    /\ now = 0
    /\ lastCall = Call("none", 0, NoBody, "none")
    /\ calls = 0
    /\ lastBody = NoBody
    /\ returned = None
    /\ calcArgs = [reviewCount |-> 0, difficulty |-> "easy"]
    /\ calcResult = None
    /\ tasks = {}
    /\ watchEvents = 0

NextRound ==
    \/ writeThenRead
    \/ saveThenLoad

SpecRound == InitRound /\ [][NextRound]_vars

-----------------------------------------------------------------------------
(* Loading a file or a stored item that was written by hand *)

\* the texts an id field may hold: numbers, letters, nothing
IdTexts == {1, 2, 0, Letters, EmptyString}

\* a row of the file with that id text
editedRow(text) ==
    Row(text, "https://leetcode.com/problems/two-sum/", "not_started",
        None, None, None, 0)

\* the values of a line of the stored item with that id text
editedLine(text) ==
    <<text, "Two Sum", "Arrays", "https://leetcode.com/problems/two-sum/",
      "not_started", EmptyString, EmptyString, EmptyString, 0, "", "">>

\* a line that ends after its tenth value
shortLine(text) == SubSeq(editedLine(text), 1, 10)

MaxRows == 2

EditedFiles ==
    UNION { [1..n -> {editedRow(text) : text \in IdTexts}] : n \in 0..MaxRows }

EditedItems ==
    {<<>>}
    \cup { <<headers>> \o lines :
             lines \in UNION { [1..n -> {editedLine(text) : text \in IdTexts}
                                        \cup {shortLine(1)}] : n \in 0..MaxRows } }

\* csvService.readQuestions
loadFile ==
    /\ returned = None
    /\ returned' = Some(readQuestions(file))
    /\ lastCall' = Call("readQuestions", 0, NoBody, "ok")
    /\ UNCHANGED <<questions, nextId, isUpdatingFromFile, timers, file, now, calls,
                   lastBody, calcArgs, calcResult, tasks, watchEvents>>

\* loadFromLocalStorage; lastBody is the stored item
loadFromLocalStorage ==
    /\ returned = None
    /\ returned' = Some(IF lastBody = <<>> THEN <<>> ELSE parseCSV(lastBody))
    /\ lastCall' = Call("parseCSV", 0, NoBody, "ok")
    /\ UNCHANGED <<questions, nextId, isUpdatingFromFile, timers, file, now, calls,
                   lastBody, calcArgs, calcResult, tasks, watchEvents>>

InitLoad ==
    /\ questions = <<>>
    /\ nextId = 1
    /\ isUpdatingFromFile = FALSE
    /\ timers = 0
    /\ file \in EditedFiles
    /\ now = 0
    /\ lastCall = Call("none", 0, NoBody, "none")
    /\ calls = 0
    /\ lastBody \in EditedItems
    /\ returned = None
    /\ calcArgs = [reviewCount |-> 0, difficulty |-> "easy"]
    /\ calcResult = None
    /\ tasks = {}
    /\ watchEvents = 0

NextLoad ==
    \/ loadFile
    \/ loadFromLocalStorage

SpecLoad == InitLoad /\ [][NextLoad]_vars

\* the state after initialize() has read a file written by hand
InitStart ==
    /\ file \in EditedFiles
    /\ questions = readQuestions(file)
    /\ nextId = increment(maxId(questions))
    /\ isUpdatingFromFile = FALSE
    /\ timers = 0
    /\ now = 0
    /\ lastCall = Call("none", 0, NoBody, "none")
    /\ calls = 0
    /\ lastBody = NoBody
    /\ returned = None
    /\ calcArgs = [reviewCount |-> 0, difficulty |-> "easy"]
    /\ calcResult = None
    /\ tasks = {}
    /\ watchEvents = 0

\* questions are created and deleted; nothing is reloaded
NextStart ==
    \/ \E data \in CreateBodies : createQuestion(data) /\ UNCHANGED <<lastBody, returned>>
    \/ \E id \in IdArgs : deleteQuestion(id) /\ UNCHANGED <<lastBody, returned>>
    \/ timerFires

SpecStart == InitStart /\ [][NextStart]_vars

----------------------------------------------------------------------------
(* Properties *)

InStore(id) == findIndex(questions, id) # 0
Q(id) == questions[findIndex(questions, id)]

\* the step just taken is a service call / a successful call of op
IsCall == calls' # calls
Succeeded(op) == IsCall /\ lastCall'.op = op /\ lastCall'.outcome = "ok"
\* the last call was a successful call of op
Did(op) == lastCall.op = op /\ lastCall.outcome = "ok"

IsPrefix(s, t) == Len(s) <= Len(t) /\ SubSeq(t, 1, Len(s)) = s

\* C1: every question in the store has reviewCount equal to the length of its
\* difficultyHistory, after any sequence of store operations from the empty store.
C1_ReviewCountIsHistoryLength ==
    \A i \in 1..Len(questions) :
        questions[i].reviewCount = Len(questions[i].difficultyHistory)

\* a question that was completed and then reviewed
C1_Witness ==
    /\ Did("review")
    /\ InStore(lastCall.id)
    /\ Q(lastCall.id).reviewCount = 2
    /\ Len(Q(lastCall.id).difficultyHistory) = 2

\* C2: a question has nextReview set if and only if its status is under_review
\* or needs_attention.
C2_NextReviewIffInReview ==
    \A i \in 1..Len(questions) :
        IsSet(questions[i].nextReview)
            <=> questions[i].status \in {"under_review", "needs_attention"}

\* one question needs attention with a review date, another has none after a reset
C2_Witness ==
    /\ Did("reset")
    /\ InStore(lastCall.id)
    /\ ~IsSet(Q(lastCall.id).nextReview)
    /\ \E i \in 1..Len(questions) :
          /\ questions[i].status \in {"under_review", "needs_attention"}
          /\ IsSet(questions[i].nextReview)

\* C3: no two distinct questions in the store have the same leetcodeUrl.
C3_UniqueUrls ==
    \A i, j \in 1..Len(questions) :
        questions[i].leetcodeUrl = questions[j].leetcodeUrl => i = j

\* two questions are stored and an update tried to give one the url of the other
C3_Witness ==
    /\ Len(questions) = 2
    /\ lastCall.op = "update"
    /\ lastCall.outcome = "DuplicateUrl"

\* C4: no two questions in the store have the same id, and update, complete,
\* review and reset leave the id of every question as it was.
C4_UniqueIds ==
    \A i, j \in 1..Len(questions) : questions[i].id = questions[j].id => i = j

C4_IdsKept ==
    (IsCall /\ lastCall'.op \in {"update", "complete", "review", "reset"})
        => /\ Len(questions') = Len(questions)
           /\ \A i \in 1..Len(questions) : questions'[i].id = questions[i].id

C4_IdsUniqueAndImmutable == []C4_UniqueIds /\ [][C4_IdsKept]_vars

\* after question 1 was deleted, question 2 stands first in the array and an
\* update of it went through
C4_Witness ==
    /\ Len(questions) >= 1
    /\ questions[1].id = 2
    /\ Did("update")
    /\ lastCall.id = 2
    /\ nextId = 3

\* C5: calculateNextReview returns local midnight of the day today + n days, with
\* n read from 1, 3, 7, 14, 30, 90 at position min(reviewCount, 5) for easy and
\* medium, and n = 1 for hard.
C5_DaysFor(reviewCount, difficulty) ==
    IF difficulty = "hard" THEN 1
    ELSE CASE reviewCount = 0 -> 1
           [] reviewCount = 1 -> 3
           [] reviewCount = 2 -> 7
           [] reviewCount = 3 -> 14
           [] reviewCount = 4 -> 30
           [] OTHER -> 90

C6_CompletePost ==
    Succeeded("complete") =>
        LET i == findIndex(questions, lastCall'.id)
            old == questions[i]
            new == questions'[i]
            difficulty == lastCall'.difficulty[1]
        IN  /\ i # 0
            /\ new.status = "under_review"
            /\ new.firstCompleted
                  = IF IsSet(old.firstCompleted) THEN old.firstCompleted ELSE Some(now)
            /\ new.lastReviewed = Some(now)
            /\ new.reviewCount = 1
            /\ new.difficultyHistory = <<difficulty>>
            /\ new.nextReview = Some(calculateNextReview(0, difficulty, now))
            /\ new.nextReview = Some(LocalMidnight(DayOf(now) + 1))

C6_CompleteQuestion == [][C6_CompletePost]_vars

\* a question completed a second time, rated hard, later than the first time
C6_Witness ==
    /\ Did("complete")
    /\ lastCall.difficulty = Some("hard")
    /\ InStore(lastCall.id)
    /\ Q(lastCall.id).status = "under_review"
    /\ Q(lastCall.id).lastReviewed = Some(now)
    /\ Q(lastCall.id).firstCompleted # Q(lastCall.id).lastReviewed

\* C7: reviewQuestion on an existing question sets status needs_attention for
\* hard and under_review otherwise, lastReviewed to now, adds 1 to reviewCount,
\* appends the difficulty to difficultyHistory and sets nextReview to
\* calculateNextReview(count before the increment, difficulty); complete(easy)
\* then review(hard) ends with needs_attention, today + 1, count 2, [easy, hard].
C7_ReviewPost ==
    Succeeded("review") =>
        LET i == findIndex(questions, lastCall'.id)
            old == questions[i]
            new == questions'[i]
            difficulty == lastCall'.difficulty[1]
        IN  /\ i # 0
            /\ new.status = IF difficulty = "hard" THEN "needs_attention"
                                                   ELSE "under_review"
            /\ new.lastReviewed = Some(now)
            /\ new.reviewCount = old.reviewCount + 1
            /\ new.difficultyHistory = old.difficultyHistory \o <<difficulty>>
            /\ new.nextReview
                  = Some(calculateNextReview(old.reviewCount, difficulty, now))
            /\ (old.difficultyHistory = <<"easy">> /\ difficulty = "hard")
                  => /\ new.nextReview = Some(LocalMidnight(DayOf(now) + 1))
                     /\ new.reviewCount = 2
                     /\ new.difficultyHistory = <<"easy", "hard">>
            /\ (old.reviewCount = 1 /\ difficulty # "hard")
                  => new.nextReview = Some(LocalMidnight(DayOf(now) + 3))

C7_ReviewQuestion == [][C7_ReviewPost]_vars

\* the scenario: completed as easy, then reviewed as hard
C7_Witness ==
    /\ Did("review")
    /\ InStore(lastCall.id)
    /\ Q(lastCall.id).status = "needs_attention"
    /\ Q(lastCall.id).reviewCount = 2
    /\ Q(lastCall.id).difficultyHistory = <<"easy", "hard">>
    /\ Q(lastCall.id).nextReview = Some(LocalMidnight(DayOf(now) + 1))

\* C8: difficultyHistory is append-only: after every operation other than
\* resetQuestion and deleteQuestion each question's history before the operation
\* is a prefix of its history after it, completeQuestion on a non-empty history
\* included.
C8_HistoryGrows ==
    (IsCall /\ lastCall'.op \notin {"reset", "delete"})
        => \A i \in 1..Len(questions) :
              /\ i <= Len(questions')
              /\ IsPrefix(questions[i].difficultyHistory,
                          questions'[i].difficultyHistory)

C8_AppendOnly == [][C8_HistoryGrows]_vars

\* C9: resetQuestion on an existing question sets status not_started, clears
\* firstCompleted, lastReviewed and nextReview, sets reviewCount to 0 and
\* difficultyHistory to empty, and leaves its id, name, category, leetcodeUrl and
\* notes and every other question unchanged.
C9_ResetPost ==
    Succeeded("reset") =>
        LET i == findIndex(questions, lastCall'.id)
            old == questions[i]
            new == questions'[i]
        IN  /\ i # 0
            /\ new.status = "not_started"
            /\ ~IsSet(new.firstCompleted)
            /\ ~IsSet(new.lastReviewed)
            /\ ~IsSet(new.nextReview)
            /\ new.reviewCount = 0
            /\ new.difficultyHistory = <<>>
            /\ new.id = old.id
            /\ new.name = old.name
            /\ new.category = old.category
            /\ new.leetcodeUrl = old.leetcodeUrl
            /\ new.notes = old.notes
            /\ Len(questions') = Len(questions)
            /\ \A j \in 1..Len(questions) : j # i => questions'[j] = questions[j]

C9_ResetQuestion == [][C9_ResetPost]_vars

\* a reset question that carries notes, next to a question that is under review
C9_Witness ==
    /\ Did("reset")
    /\ InStore(lastCall.id)
    /\ Q(lastCall.id).status = "not_started"
    /\ Q(lastCall.id).notes = "revisit"
    /\ \E j \in 1..Len(questions) :
          /\ questions[j].id # lastCall.id
          /\ questions[j].status = "under_review"
          /\ questions[j].reviewCount = 1

\* C10: resetQuestion is idempotent: in every reachable store, resetting a
\* question twice gives the store that resetting it once gives, so a store that
\* a reset has just produced is left as it is by the same reset.
C10_ResetIdempotent ==
    /\ \A i \in 1..Len(questions) :
          LET id == questions[i].id
              once == resetIn(questions, id)
          IN  /\ resetIn(once, id) = once
              /\ writeQuestions(resetIn(once, id)) = writeQuestions(once)
    /\ (Did("reset") /\ InStore(lastCall.id))
          => resetIn(questions, lastCall.id) = questions

\* a question with two reviews on record, about to be reset
C10_Witness ==
    \E i \in 1..Len(questions) :
        /\ questions[i].reviewCount = 2
        /\ questions[i].status = "needs_attention"
        /\ resetIn(questions, questions[i].id) # questions
        /\ resetIn(resetIn(questions, questions[i].id), questions[i].id)
              = resetIn(questions, questions[i].id)

\* C11: once firstCompleted of a question is set, every step other than a
\* resetQuestion of that question leaves it as first set for as long as the
\* question is in the store: completeQuestion, reviewQuestion and updateQuestion
\* (and calls on other questions) do not clear or change it.
C11_FirstCompletedKept ==
    \A i \in 1..Len(questions) :
        (/\ IsSet(questions[i].firstCompleted)
         /\ ~(Succeeded("reset") /\ lastCall'.id = questions[i].id))
        => \A j \in 1..Len(questions') :
              questions'[j].id = questions[i].id
              => questions'[j].firstCompleted = questions[i].firstCompleted

C11_FirstCompletedStable == [][C11_FirstCompletedKept]_vars

\* a question completed at time 0 and updated a tick later
C11_Witness ==
    /\ Did("update")
    /\ now = 1
    /\ InStore(lastCall.id)
    /\ Q(lastCall.id).firstCompleted = Some(0)
    /\ Q(lastCall.id).status = "under_review"

\* C12: a successful updateQuestion(id, data) sets each of name, category,
\* leetcodeUrl and notes to the value data provides and leaves it alone when data
\* does not provide it; id, status, firstCompleted, lastReviewed, nextReview,
\* reviewCount and difficultyHistory of the question, and every other question,
\* are unchanged.
C12_UpdateFrame ==
    Succeeded("update") =>
        LET i == findIndex(questions, lastCall'.id)
            old == questions[i]
            new == questions'[i]
            data == lastBody'
        IN  /\ i # 0
            /\ Len(questions') = Len(questions)
            /\ \A j \in 1..Len(questions) : j # i => questions'[j] = questions[j]
            /\ new.name = IF IsSet(data.name) THEN data.name[1] ELSE old.name
            /\ new.category
                  = IF IsSet(data.category) THEN data.category[1] ELSE old.category
            /\ new.leetcodeUrl
                  = IF IsSet(data.leetcodeUrl) THEN data.leetcodeUrl[1] ELSE old.leetcodeUrl
            /\ new.notes = IF IsSet(data.notes) THEN data.notes[1] ELSE old.notes
            /\ new.id = old.id
            /\ new.leetcodeDifficulty = old.leetcodeDifficulty
            /\ new.status = old.status
            /\ new.firstCompleted = old.firstCompleted
            /\ new.lastReviewed = old.lastReviewed
            /\ new.nextReview = old.nextReview
            /\ new.reviewCount = old.reviewCount
            /\ new.difficultyHistory = old.difficultyHistory

C12_UpdateQuestion == [][C12_UpdateFrame]_vars

\* a completed question given another category and empty notes, its name and
\* url not provided
C12_Witness ==
    /\ Did("update")
    /\ lastBody.name = None
    /\ lastBody.category = Some("Two Pointers")
    /\ lastBody.leetcodeUrl = None
    /\ lastBody.notes = Some("")
    /\ InStore(lastCall.id)
    /\ Q(lastCall.id).name = "3Sum"
    /\ Q(lastCall.id).category = "Two Pointers"
    /\ Q(lastCall.id).notes = ""
    /\ Q(lastCall.id).status = "under_review"
    /\ Q(lastCall.id).reviewCount = 1

\* C13: createQuestion with a leetcodeUrl that a question in the store already
\* has fails with the duplicate-URL error, and the failed call leaves the
\* questions, their number and the next-id counter as they were and writes
\* nothing: the file, the flag and the pending timers are untouched.
C13_DuplicateCreate ==
    (IsCall /\ lastCall'.op = "create") =>
        LET url == lastBody'.leetcodeUrl[1]
            taken == \E i \in 1..Len(questions) : questions[i].leetcodeUrl = url
        IN  /\ taken <=> lastCall'.outcome = "DuplicateUrl"
            /\ taken =>
                  /\ questions' = questions
                  /\ Len(questions') = Len(questions)
                  /\ nextId' = nextId
                  /\ file' = file
                  /\ isUpdatingFromFile' = isUpdatingFromFile
                  /\ timers' = timers

C13_CreateDuplicateUrl == [][C13_DuplicateCreate]_vars

\* a create refused for its url after the last write has settled, with the
\* store and the file still holding the one question
C13_Witness ==
    /\ lastCall.op = "create"
    /\ lastCall.outcome = "DuplicateUrl"
    /\ lastBody.name = Some("3Sum")
    /\ Len(questions) = 1
    /\ questions[1].leetcodeUrl = lastBody.leetcodeUrl[1]
    /\ questions[1].name = "Two Sum"
    /\ nextId = 2
    /\ file = writeQuestions(questions)
    /\ isUpdatingFromFile = FALSE
    /\ timers = 0

\* the url that the body of the updateQuestion(id, data) step provides is held
\* by a question with an id other than id
C14_Collides ==
    /\ IsSet(lastBody'.leetcodeUrl)
    /\ \E i \in 1..Len(questions) :
          /\ questions[i].id # lastCall'.id
          /\ questions[i].leetcodeUrl = lastBody'.leetcodeUrl[1]

\* C14 as stated: updateQuestion(id, data) fails with the duplicate-URL error
\* exactly when data provides a leetcodeUrl that a question with a different id
\* has. Violated by an id that is not in the store: the call fails with
\* 'Question not found' although the url it provides is held by a question.
C14_AsStated ==
    (IsCall /\ lastCall'.op = "update") =>
        (C14_Collides <=> lastCall'.outcome = "DuplicateUrl")

C14_UpdateDuplicateUrlAsStated == [][C14_AsStated]_vars

\* C14: updateQuestion(id, data) on an id that is in the store fails with the
\* duplicate-URL error exactly when data provides a leetcodeUrl that a question
\* with a different id has, and succeeds otherwise; the failed call changes no
\* field of any question. An update that provides the question's own current
\* url succeeds. On an id that is not in the store the call fails with
\* 'Question not found' whatever url it provides.
C14_DuplicateUpdate ==
    (IsCall /\ lastCall'.op = "update") =>
        LET i == findIndex(questions, lastCall'.id)
            data == lastBody'
        IN  IF i = 0
            THEN lastCall'.outcome = "NotFound"
            ELSE /\ C14_Collides <=> lastCall'.outcome = "DuplicateUrl"
                 /\ ~C14_Collides <=> lastCall'.outcome = "ok"
                 /\ C14_Collides => questions' = questions
                 /\ (IsSet(data.leetcodeUrl)
                        /\ questions[i].leetcodeUrl = data.leetcodeUrl[1])
                    => lastCall'.outcome = "ok"

C14_UpdateDuplicateUrl == [][C14_DuplicateUpdate]_vars

\* an update refused because the other question has the url it provides
C14_Witness ==
    /\ lastCall.op = "update"
    /\ lastCall.outcome = "DuplicateUrl"
    /\ Len(questions) = 2
    /\ lastCall.id = questions[2].id
    /\ lastBody.leetcodeUrl = Some(questions[1].leetcodeUrl)
    /\ questions[2].leetcodeUrl # questions[1].leetcodeUrl
    /\ lastBody.name = Some("Two Sum")
    /\ questions[2].name = "3Sum"

\* C15: deleteQuestion(id) on an id that is not in the store returns false and
\* leaves the store and the persisted file unchanged, with no write started; on
\* an id that is in the store it returns true and removes exactly that question,
\* the other questions staying as they were and in the same order, and writes
\* the remaining questions to the file.
C15_DeletePost ==
    (IsCall /\ lastCall'.op = "delete") =>
        LET id == lastCall'.id
            i == findIndex(questions, id)
        IN  IF i = 0
            THEN /\ lastCall'.outcome = "false"
                 /\ questions' = questions
                 /\ nextId' = nextId
                 /\ file' = file
                 /\ isUpdatingFromFile' = isUpdatingFromFile
                 /\ timers' = timers
            ELSE /\ lastCall'.outcome = "true"
                 /\ Len(questions') = Len(questions) - 1
                 /\ \A j \in 1..Len(questions') : questions'[j].id # id
                 /\ \A j \in 1..(i - 1) : questions'[j] = questions[j]
                 /\ \A j \in (i + 1)..Len(questions) : questions'[j - 1] = questions[j]
                 /\ file' = writeQuestions(questions')

C15_DeleteQuestion == [][C15_DeletePost]_vars

\* the first of two questions deleted: the second one is left, in first place
C15_Witness ==
    /\ lastCall.op = "delete"
    /\ lastCall.outcome = "true"
    /\ lastCall.id = 1
    /\ Len(questions) = 1
    /\ questions[1].id = 2
    /\ questions[1].name = "3Sum"
    /\ Len(file) = 1
    /\ file[1].id = 2

\* the step just taken is a getQuestionById call
IsGet == lastCall'.op = "get" /\ ~IsCall /\ timers' = timers /\ IsSet(returned')

\* C16: updateQuestion, completeQuestion, reviewQuestion and resetQuestion called
\* with an id that is not in the store fail with 'Question not found' (and with
\* an id that is in the store they do not), and getQuestionById returns null for
\* such an id; each of these calls leaves the questions and the next-id counter
\* unchanged and starts no write: file, flag and pending timers stay.
C16_NotFoundPost ==
    /\ (IsCall /\ lastCall'.op \in {"update", "complete", "review", "reset"}) =>
          IF findIndex(questions, lastCall'.id) = 0
          THEN /\ lastCall'.outcome = "NotFound"
               /\ UNCHANGED <<questions, nextId, file, isUpdatingFromFile, timers>>
          ELSE lastCall'.outcome # "NotFound"
    /\ IsGet =>
          /\ (\A i \in 1..Len(questions) : questions[i].id # lastCall'.id)
                <=> returned' = Some(None)
          /\ UNCHANGED <<questions, nextId, file, isUpdatingFromFile, timers>>

C16_NotFound == [][C16_NotFoundPost]_vars

\* a review of the id of a question that was created and deleted again, after
\* the writes have settled
C16_Witness ==
    /\ lastCall.op = "review"
    /\ lastCall.outcome = "NotFound"
    /\ lastCall.id = 1
    /\ nextId = 2
    /\ questions = <<>>
    /\ file = <<>>
    /\ timers = 0
    /\ isUpdatingFromFile = FALSE

\* C17: getQuestionById(id) right after a successful createQuestion(data) that
\* returned id gives a question with that id whose name, category and
\* leetcodeUrl are those of data and whose notes are data's notes ('' when data
\* has none), with status not_started, reviewCount 0, an empty
\* difficultyHistory and no firstCompleted, lastReviewed or nextReview.
C17_RoundTrip ==
    (IsGet /\ Did("create") /\ lastCall'.id = lastCall.id) =>
        /\ IsSet(returned'[1])
        /\ LET q == returned'[1][1]
               data == lastBody
           IN  /\ q.id = lastCall.id
               /\ q.name = data.name[1]
               /\ q.category = data.category[1]
               /\ q.leetcodeUrl = data.leetcodeUrl[1]
               /\ q.notes = (IF IsSet(data.notes) THEN data.notes[1] ELSE "")
               /\ q.status = "not_started"
               /\ q.reviewCount = 0
               /\ q.difficultyHistory = <<>>
               /\ q.firstCompleted = None
               /\ q.lastReviewed = None
               /\ q.nextReview = None

C17_CreateThenGet == [][C17_RoundTrip]_vars

\* the second question, created with notes after the first one was completed,
\* read back by its id
C17_Witness ==
    /\ lastCall.op = "get"
    /\ lastCall.id = 2
    /\ nextId = 3
    /\ Len(questions) = 2
    /\ questions[1].status = "under_review"
    /\ returned = Some(Some(questions[2]))
    /\ questions[2].name = "3Sum"
    /\ questions[2].notes = "revisit"
    /\ questions[2].status = "not_started"

\* C18: a successful completeQuestion or reviewQuestion sets the notes of the
\* question to the notes of the request when those are a non-empty string and
\* leaves them exactly as they were when the request has no notes or empty ones.
C18_NotesPost ==
    (Succeeded("complete") \/ Succeeded("review")) =>
        LET i == findIndex(questions, lastCall'.id)
            supplied == lastBody'.notes
        IN  /\ i # 0
            /\ questions'[i].notes
                  = IF IsSet(supplied) /\ supplied[1] # ""
                    THEN supplied[1]
                    ELSE questions[i].notes

C18_NotesOnReview == [][C18_NotesPost]_vars

\* a question with notes, reviewed with empty notes in the request
C18_Witness ==
    /\ Did("review")
    /\ lastBody.notes = Some("")
    /\ InStore(lastCall.id)
    /\ Q(lastCall.id).notes = "revisit"
    /\ Q(lastCall.id).reviewCount = 2

\* the highest id among the questions of the store, 0 for the empty store
C19_MaxId(qs) ==
    IF qs = <<>> THEN 0
    ELSE CHOOSE m \in {qs[i].id : i \in 1..Len(qs)} : \A i \in 1..Len(qs) : qs[i].id <= m

\* C19 as stated: every id assigned by createQuestion is the highest id among
\* the questions in the store at the time of the call plus one, 1 for the empty
\* store. Violated after the question with the highest id has been deleted.
C19_AsStated ==
    Succeeded("create") =>
        /\ lastCall'.id = C19_MaxId(questions) + 1
        /\ questions'[Len(questions')].id = C19_MaxId(questions) + 1

C19_IdFromCounter ==
    /\ Succeeded("create") =>
          /\ lastCall'.id = nextId
          /\ questions'[Len(questions')].id = nextId
          /\ nextId' = nextId + 1
          /\ \A i \in 1..Len(questions) : questions[i].id < nextId
          /\ (nextId = C19_MaxId(questions) + 1)
                <=> (nextId = 1 \/ \E i \in 1..Len(questions) : questions[i].id = nextId - 1)
    /\ ~Succeeded("create") => nextId' = nextId

C20_DateBefore(q) == IsSet(q.nextReview) /\ DayOf(q.nextReview[1]) < DayOf(now)
C20_DateToday(q) == IsSet(q.nextReview) /\ DayOf(q.nextReview[1]) = DayOf(now)

\* getDueQuestions puts a question in its overdue group exactly when the date of
\* nextReview is before today and in its due-today group exactly when it is
\* today; no question is in both groups
C20_Backend ==
    lastCall.op = "due" =>
        \A i \in 1..Len(questions) :
            LET q == questions[i]
                inOverdue == \E j \in 1..Len(returned[1].overdue) :
                                returned[1].overdue[j] = q
                inDueToday == \E j \in 1..Len(returned[1].questions) :
                                returned[1].questions[j] = q
            IN  /\ inOverdue <=> C20_DateBefore(q)
                /\ inDueToday <=> C20_DateToday(q)
                /\ ~(inOverdue /\ inDueToday)

\* isOverdue holds exactly when the date of nextReview is before today, and
\* getDaysOverdue is today minus the review date in whole days
C20_FrontendOverdue ==
    lastCall.op = "classify" =>
        \A i \in 1..Len(questions) :
            LET q == questions[i]
                c == returned[1][i]
            IN  /\ c.overdue <=> C20_DateBefore(q)
                /\ IsSet(q.nextReview)
                      => c.daysOverdue = DayOf(now) - DayOf(q.nextReview[1])

\* the frontend calls a question due today exactly when the date of nextReview
\* is today
C20_FrontendDueToday ==
    lastCall.op = "classify" =>
        \A i \in 1..Len(questions) :
            returned[1][i].dueToday <=> C20_DateToday(questions[i])

\* C20: relative to today's local calendar date a question is classified overdue
\* exactly when the calendar date of nextReview is before today, due today
\* exactly when it is today, and neither when it is later or nextReview is
\* absent, by getDueQuestions and by the frontend's isOverdue / isDueForReview;
\* the days-overdue value is today minus the review date in whole days; no
\* question is in both groups of getDueQuestions. Violated by isDueForReview for
\* a nextReview later today than now.
C20_DueClassification ==
    /\ C20_Backend
    /\ C20_FrontendOverdue
    /\ C20_FrontendDueToday

\* the store with every review date moved to the start of its calendar day
C21_AtMidnight(qs) ==
    [i \in 1..Len(qs) |->
        [qs[i] EXCEPT !.nextReview = IF IsSet(@) THEN Some(dateOnly(@[1])) ELSE @]]

C21_Ids(qs) == [i \in 1..Len(qs) |-> qs[i].id]
C21_IdSet(qs) == {qs[i].id : i \in 1..Len(qs)}

\* getDueQuestions gives the groups it gives when every review date and the
\* clock are moved to the start of their calendar day
C21_Backend ==
    lastCall.op = "due" =>
        LET atMidnight == dueQuestionsResponse(C21_AtMidnight(questions), dateOnly(now))
        IN  /\ C21_Ids(returned[1].questions) = C21_Ids(atMidnight.questions)
            /\ C21_Ids(returned[1].overdue) = C21_Ids(atMidnight.overdue)

\* so do isOverdue, isDueForReview and getDaysOverdue
C21_FrontendFunctions ==
    lastCall.op = "classify" =>
        \A i \in 1..Len(questions) :
            returned[1][i] = classification(C21_AtMidnight(questions)[i], dateOnly(now))

\* so do the lists of the review queue, the upcoming list among them
C21_FrontendQueue ==
    lastCall.op = "queue" =>
        LET atMidnight == reviewQueueGroups(C21_AtMidnight(questions), dateOnly(now))
        IN  /\ C21_IdSet(returned[1].overdue) = C21_IdSet(atMidnight.overdue)
            /\ C21_IdSet(returned[1].dueToday) = C21_IdSet(atMidnight.dueToday)
            /\ C21_IdSet(returned[1].upcoming) = C21_IdSet(atMidnight.upcoming)

\* C21: every due / overdue / upcoming classification ignores the time of day:
\* review dates on the same local calendar day, evaluated at instants of the
\* same local calendar day, are classified alike by getDueQuestions, by
\* isDueForReview and isOverdue and by the upcoming filter; that is, each gives
\* what it gives with every instant moved to the start of its day. Violated by
\* isDueForReview and by the upcoming filter, which compare instants.
C21_TimeOfDayIgnored ==
    /\ C21_Backend
    /\ C21_FrontendFunctions
    /\ C21_FrontendQueue

\* whole days between the calendar day of the review date and today
C22_DaysOverdue(q) == DayOf(now) - DayOf(q.nextReview[1])

C22_MostOverdueFirst(list) ==
    \A i, j \in 1..Len(list) : i < j => C22_DaysOverdue(list[i]) >= C22_DaysOverdue(list[j])

C22_SoonestFirst(list) ==
    \A i, j \in 1..Len(list) : i < j => list[i].nextReview[1] <= list[j].nextReview[1]

\* the review queue lists the most overdue question first and the soonest
\* upcoming question first
C22_Queue ==
    lastCall.op = "queue" =>
        /\ C22_MostOverdueFirst(returned[1].overdue)
        /\ C22_SoonestFirst(returned[1].upcoming)

\* the overdue group of getDueQuestions lists the most overdue question first
C22_Backend ==
    lastCall.op = "due" => C22_MostOverdueFirst(returned[1].overdue)

\* C22: the overdue group returned for the due set is ordered by days overdue,
\* most overdue first, and the upcoming group by review date, soonest first,
\* for every store content. Violated by getDueQuestions, which returns its
\* overdue group in store order.
C22_DueSetOrdered ==
    /\ C22_Backend
    /\ C22_Queue

C23_Dated(P(_)) ==
    {questions[i].id : i \in {k \in 1..Len(questions) :
        IsSet(questions[k].nextReview) /\ P(questions[k].nextReview[1])}}

C23_TodayOrEarlier(d) == DayOf(d) <= DayOf(now)
C23_NextThreeDays(d) == DayOf(d) > DayOf(now) /\ DayOf(d) <= DayOf(now) + 3

\* the two groups of getDueQuestions are disjoint and hold every question with
\* a review date of today or earlier, whatever its status
C23_Backend ==
    lastCall.op = "due" =>
        /\ C21_IdSet(returned[1].questions) \cap C21_IdSet(returned[1].overdue) = {}
        /\ C21_IdSet(returned[1].questions) \cup C21_IdSet(returned[1].overdue)
              = C23_Dated(C23_TodayOrEarlier)

\* the three lists of the review queue are disjoint
C23_QueueDisjoint ==
    lastCall.op = "queue" =>
        /\ C21_IdSet(returned[1].overdue) \cap C21_IdSet(returned[1].dueToday) = {}
        /\ C21_IdSet(returned[1].overdue) \cap C21_IdSet(returned[1].upcoming) = {}
        /\ C21_IdSet(returned[1].dueToday) \cap C21_IdSet(returned[1].upcoming) = {}

\* the upcoming list holds exactly the questions with a review date after
\* today and at most three days ahead
C23_QueueUpcoming ==
    lastCall.op = "queue" =>
        C21_IdSet(returned[1].upcoming) = C23_Dated(C23_NextThreeDays)

\* the overdue and due-today lists of the queue hold every question with a
\* review date of today or earlier
C23_QueueDue ==
    lastCall.op = "queue" =>
        C21_IdSet(returned[1].overdue) \cup C21_IdSet(returned[1].dueToday)
            = C23_Dated(C23_TodayOrEarlier)

\* C23: the due set partitions the questions into disjoint groups dueToday,
\* overdue and upcoming; upcoming holds exactly the questions whose review
\* calendar date is after today and at most today + 3 days, and every question
\* with a review date of today or earlier is in dueToday or overdue, whatever
\* its status. Violated by the review queue, which compares instants for the
\* upcoming list and lists questions under review only.
C23_DueSetPartition ==
    /\ C23_Backend
    /\ C23_QueueDisjoint
    /\ C23_QueueUpcoming
    /\ C23_QueueDue

\* nextReview is absent, empty, "0" or no date
C24_NoDate(q) ==
    ~IsSet(q.nextReview) \/ q.nextReview[1] \in {EmptyString, ZeroString, NotADate}

C24_DatedDue == {i \in 1..Len(questions) :
                    ~C24_NoDate(questions[i])
                    /\ DayOf(questions[i].nextReview[1]) <= DayOf(now)}

\* C24: a question whose nextReview is absent, the empty string, "0" or text
\* that is no date is in neither group of getDueQuestions and is not counted
\* by getStats, and both calls return.
C24_BadDatesNeverDue ==
    /\ lastCall.op = "due" =>
          /\ IsSet(returned)
          /\ \A i \in 1..Len(questions) :
                C24_NoDate(questions[i]) =>
                    questions[i].id \notin C21_IdSet(returned[1].questions)
                                           \cup C21_IdSet(returned[1].overdue)
    /\ lastCall.op = "stats" =>
          /\ IsSet(returned)
          /\ returned[1].dueToday + returned[1].overdue = Cardinality(C24_DatedDue)

C24_Witness ==
    /\ lastCall.op = "due"
    /\ Len(questions) = 2
    /\ questions[1].nextReview = Some(ZeroString)
    /\ questions[2].nextReview = Some(NotADate)
    /\ returned[1].questions = <<>>
    /\ returned[1].overdue = <<>>

C26_WithStatus(S) == Cardinality({i \in 1..Len(questions) : questions[i].status \in S})

\* C26: getStats returns totalQuestions = the number of questions, completed =
\* the number with status completed or under_review, inReview = the number
\* with status under_review, and dueToday and overdue equal to the sizes of
\* the two groups getDueQuestions returns at the same instant; so inReview <=
\* completed <= totalQuestions, and all seven counts are 0 on an empty store.
C26_Stats ==
    lastCall.op = "stats" =>
        LET stats == returned[1]
            due == dueQuestionsResponse(questions, now)
        IN  /\ stats.totalQuestions = Len(questions)
            /\ stats.completed = C26_WithStatus({"completed", "under_review"})
            /\ stats.inReview = C26_WithStatus({"under_review"})
            /\ stats.dueToday = Len(due.questions)
            /\ stats.overdue = Len(due.overdue)
            /\ stats.inReview <= stats.completed
            /\ stats.completed <= stats.totalQuestions
            /\ questions = <<>> =>
                  stats = [ totalQuestions |-> 0, completed |-> 0, inReview |-> 0,
                            dueToday |-> 0, overdue |-> 0, completedThisWeek |-> 0,
                            reviewedThisWeek |-> 0 ]

C26_Witness ==
    /\ lastCall.op = "stats"
    /\ Len(questions) = 2
    /\ questions[1].status = "under_review"
    /\ questions[2].status = "needs_attention"
    /\ returned[1].completed = 1
    /\ returned[1].inReview = 1
    /\ returned[1].dueToday = 1
    /\ returned[1].overdue = 1

C27_WeekAgo == now - 7 * TicksPerDay

\* lastReviewed is an instant of the last 7 * 24 hours
C27_ReviewedInWindow(q) ==
    /\ IsSet(q.lastReviewed)
    /\ q.lastReviewed[1] >= 0
    /\ q.lastReviewed[1] >= C27_WeekAgo

C27_CompletedInWindow(q) ==
    /\ IsSet(q.firstCompleted)
    /\ q.firstCompleted[1] >= 0
    /\ q.firstCompleted[1] >= C27_WeekAgo

C27_Counted(Test(_)) == Cardinality({i \in 1..Len(questions) : Test(questions[i])})

C27_IsReview(q) ==
    q.reviewCount > 1 /\ C27_ReviewedInWindow(q) /\ q.lastReviewed # q.firstCompleted

\* completedThisWeek counts exactly the questions first completed in the
\* trailing window
C27_CompletedThisWeek ==
    lastCall.op = "stats" =>
        returned[1].completedThisWeek = C27_Counted(C27_CompletedInWindow)

\* a question that was only completed is never counted as reviewed
C27_OnlyCompleted ==
    lastCall.op = "stats" =>
        ((\A i \in 1..Len(questions) :
              questions[i].reviewCount <= 1
              \/ questions[i].lastReviewed = questions[i].firstCompleted)
            => returned[1].reviewedThisWeek = 0)

\* reviewedThisWeek counts exactly the reviews when every lastReviewed is a date
C27_ReviewedThisWeekOfDates ==
    lastCall.op = "stats" =>
        ((\A i \in 1..Len(questions) : questions[i].lastReviewed # Some(NotADate))
            => returned[1].reviewedThisWeek = C27_Counted(C27_IsReview))

\* C27: reviewedThisWeek counts exactly the questions with reviewCount > 1
\* whose lastReviewed instant is within the trailing 7 * 24 hours of now and
\* differs from firstCompleted, a question that was only completed is never
\* counted, and completedThisWeek counts exactly the questions whose
\* firstCompleted instant is within the same window.
C27_ThisWeek ==
    /\ lastCall.op = "stats" =>
          returned[1].reviewedThisWeek = C27_Counted(C27_IsReview)
    /\ C27_OnlyCompleted
    /\ C27_CompletedThisWeek

C25_SameLetter(a, b) == toLowerCase(<<a>>) = toLowerCase(<<b>>)

\* part occurs in s at some place, letter by letter without regard to case
C25_Contains(s, part) ==
    \E start \in 0..(Len(s) - Len(part)) :
        \A i \in 1..Len(part) : C25_SameLetter(s[start + i], part[i])

C25_Matches(q) ==
    /\ IsSet(lastBody.category) => C25_Contains(q.category, lastBody.category[1])
    /\ IsSet(lastBody.status) => q.status = lastBody.status[1]

C25_Matching == SelectSeq(questions, C25_Matches)

\* C25: getAllQuestions(filters) returns total = the number of questions whose
\* category contains filters.category without regard to case (when given) and
\* whose status equals filters.status (when given), and questions = the matches
\* at positions (page-1)*limit+1 .. page*limit, counted from 1, in store order;
\* a page past the last match gives an empty list with the same total and no
\* error, and page is echoed.
C25_GetAllQuestions ==
    lastCall.op = "list" =>
        LET response == returned[1]
            before == (lastBody.page - 1) * lastBody.limit
        IN  /\ lastCall.outcome = "ok"
            /\ response.total = Len(C25_Matching)
            /\ response.page = lastBody.page
            /\ Len(response.questions) =
                  IF before >= Len(C25_Matching) THEN 0
                  ELSE Min(lastBody.limit, Len(C25_Matching) - before)
            /\ \A k \in 1..Len(response.questions) :
                  response.questions[k] = C25_Matching[before + k]

\* the second page of two matches out of three questions, one per page
C25_Witness ==
    /\ lastCall.op = "list"
    /\ Len(questions) = 3
    /\ lastBody.category = Some(<<"A", "B">>)
    /\ lastBody.page = 2
    /\ lastBody.limit = 1
    /\ returned[1].total = 2
    /\ Len(returned[1].questions) = 1
    /\ returned[1].questions[1].id = 3
    /\ returned[1].questions[1].category = <<"A", "b">>

\* the rows hold what the operation did: the question it created, or the
\* question it completed with the status of a completed question
C28_Holds(op, rows) ==
    \E i \in 1..Len(rows) :
        /\ rows[i].id = op.id
        /\ IF op.op = "create" THEN rows[i].leetcode_url = ProblemUrls[2]
           ELSE rows[i].status = "under_review"

\* the step is the return of the mutating operation that waits as t
C28_Returns(t) ==
    /\ t \in tasks
    /\ t.kind = "write"
    /\ t.phase = "written"
    /\ t \notin tasks'

\* the write of the operation that returns was given a set of records that
\* holds what the operation did, and has reached the file
C28_OwnWrite ==
    [][\A t \in tasks : C28_Returns(t) => C28_Holds(t.op, t.records[1])]_vars

\* C28: whenever a mutating operation returns successfully, the adapter has
\* been handed the full record set and its write has completed before the
\* return, so the file holds what the operation did. Violated when the write
\* of an earlier operation reaches the file after the write of this one.
C28_WrittenBeforeReturn ==
    [][\A t \in tasks : C28_Returns(t) => C28_Holds(t.op, file')]_vars

\* the in-memory set holds what the operation did
C29_InMemory(op) ==
    \E i \in 1..Len(questions) :
        /\ questions[i].id = op.id
        /\ IF op.op = "create" THEN questions[i].leetcodeUrl = ProblemUrls[2]
           ELSE questions[i].status = "under_review"

\* C29: a reload never replaces in-memory state that the store's own most
\* recent mutation produced with older content: under every interleaving of a
\* reload with a mutating operation and its write, what the most recently
\* returned mutation did is in the in-memory set. Violated when the reload
\* passes the test of the flag before the mutation raises it, or after the
\* timer has lowered it, and reads the file before the write reaches it.
C29_ReloadKeepsOwnWrite ==
    (lastCall.op \in {"create", "complete"} /\ lastCall.outcome = "ok")
        => C29_InMemory(lastCall)

\* the step is the replacement made by the reload that waits as t
C30_Replaces(t) ==
    /\ t \in tasks
    /\ t.kind = "reload"
    /\ t.phase = "read"
    /\ \A u \in tasks' : u.n # t.n

\* a reload replaces the in-memory set with the rows it read and sets the
\* counter to the highest id + 1, 1 for no rows, as initialize does
C30_FullReplace ==
    [][\A t \in tasks :
          C30_Replaces(t) =>
              /\ questions' = readQuestions(t.records[1])
              /\ nextId' = IF questions' = <<>> THEN 1
                           ELSE 1 + CHOOSE m \in C21_IdSet(questions') :
                                        \A id \in C21_IdSet(questions') : id <= m]_vars

\* no mutating operation and no write took effect between the read of the
\* file and the replacement
C30_NothingBetween ==
    [][\A t \in tasks :
          C30_Replaces(t) =>
              /\ ~t.overtaken]_vars

\* C30: reload and write operations never interleave: a reload that is not
\* suppressed acts as one atomic step that replaces the in-memory set with the
\* persisted snapshot and sets the next-id counter to max(id) + 1 (1 if
\* empty), as initialize does, with no mutating operation or adapter write
\* taking effect between its read of the file and its replacement of the
\* in-memory set. Violated: the reload awaits its read, and handlers run
\* meanwhile.
C30_ReloadAtomic ==
    [][\A t \in tasks :
          C30_Replaces(t) =>
              /\ questions' = readQuestions(t.records[1])
              /\ nextId' = IF questions' = <<>> THEN 1
                           ELSE 1 + CHOOSE m \in C21_IdSet(questions') :
                                        \A id \in C21_IdSet(questions') : id <= m
              /\ ~t.overtaken]_vars

\* days from the documented sequence for a question reviewed r times before
C31_Documented(reviewsBefore) ==
    <<1, 3, 7, 14, 30, 60, 90>>[Min(reviewsBefore, 6) + 1]

\* the days the code adds: 1, 3, 7, 14, 30, 90, with no step of 60
C31_Coded(reviewsBefore) ==
    <<1, 3, 7, 14, 30, 90>>[Min(reviewsBefore, 5) + 1]

C31_Scheduled(Days(_)) ==
    (lastCall.op = "review" /\ lastCall.outcome = "ok") =>
        LET q == Q(1)
            days == IF lastCall.difficulty = Some("hard") THEN 1
                    ELSE Days(q.reviewCount - 1)
        IN  q.nextReview = Some(LocalMidnight(DayOf(now) + days))

\* a review that is not hard is scheduled on 1, 3, 7, 14, 30, 90 days, a hard
\* one on 1 day
C31_CodedSequence == C31_Scheduled(C31_Coded)

\* C31: successive reviews of a question that are not struggled are scheduled
\* on the increasing sequence 1, 3, 7, 14, 30, 60, 90 days, and a review
\* marked as struggled (hard) resets the interval to 1 day. Violated: the
\* table of the code has no 60, the review after 30 days is set 90 days ahead.
C31_IntervalSequence == C31_Scheduled(C31_Documented)

\* the rows written hold the empty string for an absent date
C32_AbsentIsEmpty(rows) ==
    \A i \in 1..Len(questions) :
        /\ ~IsSet(questions[i].firstCompleted) => rows[i].first_completed = EmptyString
        /\ ~IsSet(questions[i].lastReviewed) => rows[i].last_reviewed = EmptyString
        /\ ~IsSet(questions[i].nextReview) => rows[i].next_review = EmptyString

\* the questions read back equal the originals, field by field
C32_ReadBack(back) ==
    /\ Len(back) = Len(questions)
    /\ \A i \in 1..Len(questions) :
          /\ back[i].id = questions[i].id
          /\ back[i].name = questions[i].name
          /\ back[i].category = questions[i].category
          /\ back[i].leetcodeUrl = questions[i].leetcodeUrl
          /\ back[i].status = questions[i].status
          /\ back[i].reviewCount = questions[i].reviewCount
          /\ back[i].difficultyHistory = questions[i].difficultyHistory
          /\ back[i].notes = questions[i].notes
          /\ back[i].firstCompleted = questions[i].firstCompleted
          /\ back[i].lastReviewed = questions[i].lastReviewed
          /\ back[i].nextReview = questions[i].nextReview

\* the adapter of the backend gives the questions back as they were
C32_Backend ==
    lastCall.op = "csvService" => C32_AbsentIsEmpty(file) /\ C32_ReadBack(returned[1])

\* C32: writing the record set through the persistence adapter and reading it
\* back yields records equal to the originals in id, name, category,
\* leetcodeUrl, status, reviewCount, difficultyHistory and notes; an absent
\* firstCompleted, lastReviewed or nextReview is persisted as the empty string
\* and reads back as absent, and a present one reads back unchanged. Violated
\* by the adapter of the frontend, which writes the day of a date only.
C32_RoundTrip ==
    /\ C32_Backend
    /\ lastCall.op = "csvHandler" =>
          /\ \A i \in 1..Len(questions) :
                /\ ~IsSet(questions[i].firstCompleted) => lastBody[i + 1][6] = EmptyString
                /\ ~IsSet(questions[i].lastReviewed) => lastBody[i + 1][7] = EmptyString
                /\ ~IsSet(questions[i].nextReview) => lastBody[i + 1][8] = EmptyString
          /\ C32_ReadBack(returned[1])

\* an id text that spells a positive number
C33_WellFormed(text) == text > 0

\* every question loaded has a positive id
C33_PositiveIds == \A i \in 1..Len(returned[1]) : returned[1][i].id > 0

\* the ids loaded are the ids of the well-formed rows, in their order
C33_Ids == [i \in 1..Len(returned[1]) |-> returned[1][i].id]

C33_IsFull(line) == Len(line) >= 11 /\ C33_WellFormed(line[1])

C33_IsGood(row) == C33_WellFormed(row.id)

\* parseCSV / loadFromLocalStorage returns the empty list when nothing is
\* stored, passes over the short lines and the lines without a positive id,
\* and returns the other lines
C33_Frontend ==
    lastCall.op = "parseCSV" =>
        /\ C33_PositiveIds
        /\ Len(lastBody) <= 1 => returned[1] = <<>>
        /\ Len(lastBody) > 1 =>
              LET good == SelectSeq(Tail(lastBody), C33_IsFull)
              IN  C33_Ids = [i \in 1..Len(good) |-> good[i][1]]

\* C33: loading never fails because of a malformed row and never admits one:
\* readQuestions / parseCSV returns the empty list when there is no persisted
\* data, skips every malformed row (a missing or non-numeric id) and returns
\* the remaining well-formed rows, so every loaded question has a positive
\* integer id. Violated by readQuestions, whose parseCSVRow never throws.
C33_MalformedSkipped ==
    /\ C33_Frontend
    /\ lastCall.op = "readQuestions" =>
          /\ C33_PositiveIds
          /\ file = <<>> => returned[1] = <<>>
          /\ LET good == SelectSeq(file, C33_IsGood)
             IN  C33_Ids = [i \in 1..Len(good) |-> good[i].id]

\* the step is the return of reloadFromFile to the refresh route without a
\* read: the flag was up, or the read failed
C34_ReturnsUnread ==
    \/ /\ calls' = calls + 1
       /\ tasks' = tasks
       /\ lastCall'.op = "refresh"
       /\ lastCall'.outcome = "suppressed"
    \/ \E t \in tasks :
          /\ t.kind = "reload" /\ t.phase = "reading" /\ t.op.op = "refresh"
          /\ \A u \in tasks' : u.n # t.n

\* the step is the return of the refresh that read the file as t
C34_ReturnsRead(t) == C30_Replaces(t) /\ t.op.op = "refresh"

\* in memory are the questions of these rows, and the counter follows them
C34_Loaded(rows) ==
    /\ questions' = readQuestions(rows)
    /\ nextId' = maxId(readQuestions(rows)) + 1

\* a refresh that reads the file leaves in memory what it read
C34_RefreshThatReads ==
    [][\A t \in tasks : C34_ReturnsRead(t) => C34_Loaded(t.records[1])]_vars

\* C34: whenever the manual refresh returns successfully, the in-memory
\* question set equals the content of the CSV file as read during that call
\* and the next-id counter is max(id) + 1, also when the refresh is requested
\* right after a store write or when reading the file fails. Violated: then
\* the refresh returns without having read, and memory is not what the file
\* holds.
C34_RefreshLoads ==
    [][/\ \A t \in tasks : C34_ReturnsRead(t) => C34_Loaded(t.records[1])
       /\ C34_ReturnsUnread => C34_Loaded(file')]_vars

\* C35: after every call to saveQuestions the reload-suppression flag
\* isUpdatingFromFile eventually returns to false, including when the
\* adapter's write fails, so reloads and refreshes are never suppressed
\* forever. Violated: a write that fails leaves the flag up for good.
C35_FlagReturns == isUpdatingFromFile ~> ~isUpdatingFromFile

\* a write that a store operation started is in progress
C36_Writing == \E t \in tasks : t.kind = "write"

\* a reload called while the flag is up returns without reading
C36_FlagSuppresses ==
    [][isUpdatingFromFile =>
          ~(\E t \in tasks' \ tasks : t.kind = "reload" /\ t.phase = "reading")]_vars

\* C36: while any store-initiated adapter write is in progress,
\* isUpdatingFromFile is true, so reloadFromFile returns without reading, also
\* when two mutating operations overlap and the timer of an earlier save fires
\* during a later save's write. Violated: the timer of the earlier save lowers
\* the flag while the later write is in progress.
C36_FlagWhileWriting == C36_Writing => isUpdatingFromFile

\* the row that fileEdited adds is in the file or in memory
C37_Edited ==
    \/ \E i \in 1..Len(file) : file[i].leetcode_url = ProblemUrls[3]
    \/ \E i \in 1..Len(questions) : questions[i].leetcodeUrl = ProblemUrls[3]

\* C37: whenever no store operation is in progress and the file has not been
\* edited externally, the persisted snapshot equals the in-memory record set;
\* in particular a mutating operation whose adapter write fails does not leave
\* in memory a change that is absent from the persisted snapshot. Violated:
\* the operations change memory before they write and undo nothing.
C37_SnapshotIsMemory ==
    (tasks = {} /\ ~C37_Edited) => file = writeQuestions(questions)

\* the question has been completed and reviewed, by its dates
C38_Dated(q) == IsSet(q.firstCompleted) /\ IsSet(q.lastReviewed)

\* a question that completeQuestion has put under review has both dates
C38_AfterComplete ==
    [][(lastCall'.op = "complete" /\ lastCall'.outcome = "ok" /\ calls' = calls + 1)
          => \A i \in 1..Len(questions') :
                questions'[i].id = lastCall'.id => C38_Dated(questions'[i])]_vars

\* C38: every question whose status is under_review or needs_attention has
\* firstCompleted and lastReviewed set, after any sequence of store
\* operations; in particular when reviewQuestion is called on a question that
\* is still not_started. Violated: reviewQuestion does not set firstCompleted.
C38_ReviewedHaveDates ==
    \A i \in 1..Len(questions) :
        questions[i].status \in {"under_review", "needs_attention"}
            => C38_Dated(questions[i])

\* n > id as the program computes it: NaN is above nothing and below nothing
C39_Above(n, id) == n # NaN /\ id # NaN /\ n > id

\* the counter is above every id of the store
C39_CounterAboveIds == \A i \in 1..Len(questions) : C39_Above(nextId, questions[i].id)

\* a create takes the value of the counter as the id and leaves the counter
\* above it, and nothing else lowers the counter: the ids assigned go up
C39_IdsGoUp ==
    /\ Succeeded("create") =>
          /\ questions'[Len(questions')].id = nextId
          /\ C39_Above(nextId', nextId)
    /\ ~Succeeded("create") => nextId' = nextId

\* C39: in every reachable state the next-id counter is strictly greater than
\* the id of every question in the store, and, as long as no reload happens,
\* createQuestion never assigns an id that was assigned before, even when the
\* earlier holder of that id has been deleted. Violated after a file with a
\* row whose id is no number has been loaded: the counter is NaN.
C39_FreshIds == []C39_CounterAboveIds /\ [][C39_IdsGoUp]_vars

\* C40: no store operation ever produces the status completed: starting from
\* an empty store, every question reachable through create, update, complete,
\* review and reset has status not_started, under_review or needs_attention,
\* so getStats().completed always equals getStats().inReview.
C40_NeverCompleted ==
    /\ \A i \in 1..Len(questions) :
          questions[i].status \in {"not_started", "under_review", "needs_attention"}
    /\ statsResponse(questions, now).completed = statsResponse(questions, now).inReview

\* a store with a question under review and a question that needs attention:
\* getStats counts one as completed and one as in review
C40_Witness ==
    /\ \E i \in 1..Len(questions) : questions[i].status = "under_review"
    /\ \E i \in 1..Len(questions) : questions[i].status = "needs_attention"
    /\ statsResponse(questions, now).completed = 1
    /\ statsResponse(questions, now).inReview = 1

====
